---- MODULE Spec2Model ----
(***************************************************************************)
(* A model of borsapy's provider/cache layer: the TTL cache of cache.py,   *)
(* the cache-aside calls of the providers built on BaseProvider, and the   *)
(* cache keys they compute.                                                *)
(***************************************************************************)
EXTENDS Integers, Sequences, FiniteSets, TLC

VARIABLES
    store,      \* Cache._store: key -> CacheEntry (value, expires_at)
    now,        \* the reading time.time() gives
    last,       \* the last Cache operation: arguments, clock reading, result, store before
    hist,       \* per key, the last set() of it and what happened to it since
    lock,       \* Cache._lock: the thread holding it, or None
    thr,        \* per thread: where it is in its call, the call's arguments and locals
    abs,        \* the store as the operations completed so far, one at a time, leave it
    heap,       \* the objects (dicts, frames) the providers built: reference -> content
    http,       \* the number of HTTP requests issued so far
    call,       \* the last provider call: arguments, cache key, requests issued, result
    filled,     \* per cache key, the provider call that stored its entry
    today,      \* the year and month datetime.now() gives
    walk        \* the frame of _get_periods: its arguments, locals and the list it builds

seqVars == <<last, hist>>
concVars == <<lock, thr, abs>>
provVars == <<heap, http, call, filled>>
calVars == <<today, walk>>
vars == <<store, now, seqVars, concVars, provVars, calVars>>

\* What the actions of one part of the model leave alone.
othersSeq == <<concVars, provVars, calVars>>
othersConc == <<seqVars, provVars, calVars>>
othersProv == <<seqVars, concVars, calVars>>
othersClock == <<seqVars, concVars, provVars, calVars>>
othersCal == <<seqVars, concVars>>

(***************************************************************************)
(* Bounds of the model.                                                    *)
(***************************************************************************)
MaxClock == 2
MaxTTL == 1

Keys == {"k1", "k2"}
Values == {"v1", "v2"}
TTLs == 0..MaxTTL
None == "None"

(***************************************************************************)
(* Dictionaries: functions with a finite domain.                           *)
(***************************************************************************)
EmptyDict == [k \in {} |-> None]
DictRemove(d, ks) == [k \in (DOMAIN d) \ ks |-> d[k]]
DictPut(d, key, v) == [k \in (DOMAIN d) \cup {key} |-> IF k = key THEN v ELSE d[k]]

CacheEntry(value, expires_at) == [value |-> value, expires_at |-> expires_at]

(***************************************************************************)
(* cache.py: the operations of Cache, each the whole body that runs under  *)
(* the lock; t is the reading of time.time() the body takes.               *)
(***************************************************************************)
Cache_get_evict_at_expiry(s, key, t) ==
    IF key \notin DOMAIN s THEN [store |-> s, ret |-> None]
    ELSE IF t >= s[key].expires_at
         THEN [store |-> DictRemove(s, {key}), ret |-> None]
         ELSE [store |-> s, ret |-> s[key].value]

Cache_get_sweeps(s, key, t) ==
    IF key \notin DOMAIN s THEN [store |-> s, ret |-> None]
    ELSE IF t > s[key].expires_at
         THEN [store |-> DictRemove(s, {k \in DOMAIN s : t > s[k].expires_at}),
               ret |-> None]
         ELSE [store |-> s, ret |-> s[key].value]

Cache_get(s, key, t) ==
    IF key \notin DOMAIN s THEN [store |-> s, ret |-> None]
    ELSE IF t > s[key].expires_at
         THEN [store |-> DictRemove(s, {key}), ret |-> None]
         ELSE [store |-> s, ret |-> s[key].value]

Cache_set_keeps_live(s, key, value, ttl_seconds, t) ==
    IF key \in DOMAIN s /\ t <= s[key].expires_at
    THEN [store |-> s, ret |-> None]
    ELSE [store |-> DictPut(s, key, CacheEntry(value, t + ttl_seconds)), ret |-> None]

Cache_set_zero_is_default(s, key, value, ttl_seconds, t) ==
    [store |-> DictPut(s, key,
                  CacheEntry(value, t + (IF ttl_seconds = 0 THEN 1 ELSE ttl_seconds))),
     ret |-> None]

Cache_set(s, key, value, ttl_seconds, t) ==
    [store |-> DictPut(s, key, CacheEntry(value, t + ttl_seconds)), ret |-> None]

Cache_delete(s, key) ==
    IF key \in DOMAIN s
    THEN [store |-> DictRemove(s, {key}), ret |-> TRUE]
    ELSE [store |-> s, ret |-> FALSE]

Cache_clear(s) == [store |-> EmptyDict, ret |-> None]

Cache_cleanup_at_expiry(s, t) ==
    LET expired_keys == {k \in DOMAIN s : t >= s[k].expires_at}
    IN  [store |-> DictRemove(s, expired_keys), ret |-> Cardinality(expired_keys)]

Cache_cleanup(s, t) ==
    LET expired_keys == {k \in DOMAIN s : t > s[k].expires_at}
    IN  [store |-> DictRemove(s, expired_keys), ret |-> Cardinality(expired_keys)]

(***************************************************************************)
(* The record of the last operation, and the per-key record of the last    *)
(* set: value, clock reading and TTL, whether the entry has been evicted   *)
(* (by a get or a cleanup) since, and "set" until a delete or a clear.     *)
(***************************************************************************)
NoOp == [op |-> "none", key |-> None, value |-> None, ttl |-> 0, t |-> 0,
         ret |-> None, pre |-> EmptyDict,
         h |-> [set |-> FALSE, value |-> None, t |-> 0, ttl |-> 0, evicted |-> FALSE]]

NeverSet == [set |-> FALSE, value |-> None, t |-> 0, ttl |-> 0, evicted |-> FALSE]

Op(op, key, value, ttl, ret) ==
    [op |-> op, key |-> key, value |-> value, ttl |-> ttl, t |-> now, ret |-> ret,
     pre |-> store, h |-> IF key \in Keys THEN hist[key] ELSE NeverSet]

Evicted(h, s, k) ==
    [k2 \in Keys |-> IF k2 \in DOMAIN store /\ k2 \notin DOMAIN s
                     THEN [h[k2] EXCEPT !.evicted = TRUE] ELSE h[k2]]

CacheInit ==
    /\ store = EmptyDict
    /\ now = 0

SeqInit ==
    /\ last = NoOp
    /\ hist = [k \in Keys |-> NeverSet]

Get(key) ==
    LET r == Cache_get(store, key, now)
    IN  /\ store' = r.store
        /\ last' = Op("get", key, None, 0, r.ret)
        /\ hist' = Evicted(hist, r.store, key)
        /\ UNCHANGED <<now, othersSeq>>

Set(key, value, ttl_seconds) ==
    LET r == Cache_set(store, key, value, ttl_seconds, now)
    IN  /\ store' = r.store
        /\ last' = Op("set", key, value, ttl_seconds, r.ret)
        /\ hist' = [hist EXCEPT ![key] = [set |-> TRUE, value |-> value, t |-> now,
                                          ttl |-> ttl_seconds, evicted |-> FALSE]]
        /\ UNCHANGED <<now, othersSeq>>

Delete(key) ==
    LET r == Cache_delete(store, key)
    IN  /\ store' = r.store
        /\ last' = Op("delete", key, None, 0, r.ret)
        /\ hist' = [hist EXCEPT ![key] = NeverSet]
        /\ UNCHANGED <<now, othersSeq>>

Clear ==
    LET r == Cache_clear(store)
    IN  /\ store' = r.store
        /\ last' = Op("clear", None, None, 0, r.ret)
        /\ hist' = [k \in Keys |-> NeverSet]
        /\ UNCHANGED <<now, othersSeq>>

Cleanup ==
    LET r == Cache_cleanup(store, now)
    IN  /\ store' = r.store
        /\ last' = Op("cleanup", None, None, 0, r.ret)
        /\ hist' = Evicted(hist, r.store, None)
        /\ UNCHANGED <<now, othersSeq>>

(***************************************************************************)
(* time.time() is the wall clock: it moves on, and it may be set back.     *)
(***************************************************************************)
ClockForward ==
    /\ now < MaxClock
    /\ now' = now + 1
    /\ UNCHANGED <<store, othersClock>>

ClockBack ==
    /\ now > 0
    /\ now' = now - 1
    /\ UNCHANGED <<store, othersClock>>

CacheNext ==
    \/ \E key \in Keys : Get(key)
    \/ \E key \in Keys, value \in Values, ttl_seconds \in TTLs : Set(key, value, ttl_seconds)
    \/ \E key \in Keys : Delete(key)
    \/ Clear
    \/ Cleanup
    \/ ClockForward
    \/ ClockBack


(***************************************************************************)
(* Threads on one Cache.  A thread calls a Cache operation directly, or    *)
(* calls IsYatirimProvider.get_realtime_quote, whose cache-aside steps are *)
(* Cache.get, the HTTP request, _parse_quote and Cache.set.  Each Cache    *)
(* operation is a "with self._lock:" block; a step below is one statement  *)
(* of its body.                                                            *)
(***************************************************************************)
Threads == {"t1", "t2"}

TTL_REALTIME_PRICE == 60

\* f"isyatirim:quote:{symbol}", as the pieces it is put together from
QuoteCacheKey(symbol) == <<"isyatirim", ":", "quote", ":">> \o symbol

ConcSymbols == {<<"T", "H", "Y", "A", "O">>, <<"X", "U", "1", "0", "0">>}
ConcKeys == {QuoteCacheKey(symbol) : symbol \in ConcSymbols}
ConcValues == {"v1"}
\* what the upstream answers: an HTTP error, an empty body, a body without
\* "symbol", or a quote
Payloads == {"HTTPError", "empty", "nosymbol", "q1"}

NoEntry == [present |-> FALSE, value |-> None, expires_at |-> 0]
IdleThread ==
    [pc |-> "idle", op |-> None, outer |-> None, key |-> <<>>, value |-> None,
     ttl_seconds |-> 0, entry |-> NoEntry, t |-> 0, expired_keys |-> {}, n |-> 0,
     ret |-> None, lin |-> TRUE]

\* the statements of the Cache operations that run with the lock held
InCache == {"get_entry", "get_time", "get_del", "set_store", "del_check", "del_del",
            "clear_store", "cleanup_scan", "cleanup_del", "release"}

ConcIdle ==
    /\ lock = None
    /\ thr = [i \in Threads |-> IdleThread]
    /\ abs = EmptyDict

\* threading.Lock: acquire blocks while another thread holds the lock
LockNotExclusive == TRUE

LockFree == lock = None

\* leaving the with block releases the lock, on every path out of it
UnlockSkippedOnMiss(i) ==
    IF thr[i].op = "get" /\ thr[i].ret = None THEN lock ELSE None

Unlock(i) == None

FirstStatement(op) ==
    CASE op = "get" -> "get_entry"
      [] op = "set" -> "set_store"
      [] op = "delete" -> "del_check"
      [] op = "clear" -> "clear_store"
      [] op = "cleanup" -> "cleanup_scan"

\* a thread calls a Cache operation
CallCache(i, op, key, value, ttl_seconds) ==
    /\ thr[i].pc = "idle"
    /\ thr' = [thr EXCEPT ![i] = [IdleThread EXCEPT !.pc = "acquire", !.op = op,
                  !.outer = "cache", !.key = key, !.value = value,
                  !.ttl_seconds = ttl_seconds]]
    /\ UNCHANGED <<store, now, lock, abs, othersConc>>

\* a thread calls get_realtime_quote(symbol): cache_key, then _cache_get
CallQuote(i, symbol) ==
    /\ thr[i].pc = "idle"
    /\ thr' = [thr EXCEPT ![i] = [IdleThread EXCEPT !.pc = "acquire", !.op = "get",
                  !.outer = "quote", !.key = QuoteCacheKey(symbol)]]
    /\ UNCHANGED <<store, now, lock, abs, othersConc>>

Acquire(i) ==
    /\ thr[i].pc = "acquire"
    /\ LockFree
    /\ lock' = i
    /\ thr' = [thr EXCEPT ![i].pc = FirstStatement(thr[i].op)]
    /\ UNCHANGED <<store, now, abs, othersConc>>

\* entry = self._store.get(key); if entry is None: return None
GetEntry(i) ==
    /\ thr[i].pc = "get_entry"
    /\ thr' = [thr EXCEPT ![i] =
                  IF thr[i].key \in DOMAIN store
                  THEN [thr[i] EXCEPT !.pc = "get_time",
                           !.entry = [present |-> TRUE,
                                      value |-> store[thr[i].key].value,
                                      expires_at |-> store[thr[i].key].expires_at]]
                  ELSE [thr[i] EXCEPT !.pc = "release", !.ret = None]]
    /\ UNCHANGED <<store, now, lock, abs, othersConc>>

\* if time.time() > entry.expires_at: ... else: return entry.value
GetTime(i) ==
    /\ thr[i].pc = "get_time"
    /\ thr' = [thr EXCEPT ![i] =
                  IF now > thr[i].entry.expires_at
                  THEN [thr[i] EXCEPT !.pc = "get_del", !.t = now]
                  ELSE [thr[i] EXCEPT !.pc = "release", !.t = now,
                           !.ret = thr[i].entry.value]]
    /\ UNCHANGED <<store, now, lock, abs, othersConc>>

\* del self._store[key]; return None
GetDel(i) ==
    /\ thr[i].pc = "get_del"
    /\ store' = DictRemove(store, {thr[i].key})
    /\ thr' = [thr EXCEPT ![i].pc = "release", ![i].ret = None]
    /\ UNCHANGED <<now, lock, abs, othersConc>>

\* self._store[key] = CacheEntry(value=value, expires_at=time.time() + ttl_seconds)
SetStore(i) ==
    /\ thr[i].pc = "set_store"
    /\ store' = DictPut(store, thr[i].key,
                        CacheEntry(thr[i].value, now + thr[i].ttl_seconds))
    /\ thr' = [thr EXCEPT ![i].pc = "release", ![i].t = now, ![i].ret = None]
    /\ UNCHANGED <<now, lock, abs, othersConc>>

\* if key in self._store: ... return False
DelCheck(i) ==
    /\ thr[i].pc = "del_check"
    /\ thr' = [thr EXCEPT ![i] =
                  IF thr[i].key \in DOMAIN store
                  THEN [thr[i] EXCEPT !.pc = "del_del"]
                  ELSE [thr[i] EXCEPT !.pc = "release", !.ret = FALSE]]
    /\ UNCHANGED <<store, now, lock, abs, othersConc>>

\* del self._store[key]; return True
DelDel(i) ==
    /\ thr[i].pc = "del_del"
    /\ store' = DictRemove(store, {thr[i].key})
    /\ thr' = [thr EXCEPT ![i].pc = "release", ![i].ret = TRUE]
    /\ UNCHANGED <<now, lock, abs, othersConc>>

\* self._store.clear()
ClearStore(i) ==
    /\ thr[i].pc = "clear_store"
    /\ store' = EmptyDict
    /\ thr' = [thr EXCEPT ![i].pc = "release", ![i].ret = None]
    /\ UNCHANGED <<now, lock, abs, othersConc>>

\* now = time.time(); expired_keys = [k for k, v in ... if now > v.expires_at]
CleanupScan(i) ==
    /\ thr[i].pc = "cleanup_scan"
    /\ LET expired_keys == {k \in DOMAIN store : now > store[k].expires_at}
       IN  thr' = [thr EXCEPT ![i].pc = "cleanup_del", ![i].t = now,
                      ![i].expired_keys = expired_keys,
                      ![i].n = Cardinality(expired_keys)]
    /\ UNCHANGED <<store, now, lock, abs, othersConc>>

\* for key in expired_keys: del self._store[key]; return len(expired_keys)
CleanupDel(i) ==
    /\ thr[i].pc = "cleanup_del"
    /\ IF thr[i].expired_keys = {}
       THEN /\ thr' = [thr EXCEPT ![i].pc = "release", ![i].ret = thr[i].n]
            /\ UNCHANGED store
       ELSE \E key \in thr[i].expired_keys :
               /\ store' = DictRemove(store, {key})
               /\ thr' = [thr EXCEPT ![i].expired_keys = thr[i].expired_keys \ {key}]
    /\ UNCHANGED <<now, lock, abs, othersConc>>

\* The operation as a whole, on the store the completed operations left.
Atomic(th) ==
    CASE th.op = "get" -> Cache_get(abs, th.key, th.t)
      [] th.op = "set" -> Cache_set(abs, th.key, th.value, th.ttl_seconds, th.t)
      [] th.op = "delete" -> Cache_delete(abs, th.key)
      [] th.op = "clear" -> Cache_clear(abs)
      [] th.op = "cleanup" -> Cache_cleanup(abs, th.t)

\* Where the caller goes on once the Cache operation has returned: a direct
\* call is over; get_realtime_quote returns a cached quote, goes on to the
\* HTTP request on a miss, and returns the parsed quote once it is stored.
AfterCache(th) ==
    IF th.outer = "quote" /\ th.op = "get" /\ th.ret = None
    THEN [th EXCEPT !.pc = "fetch", !.t = 0]
    ELSE [IdleThread EXCEPT !.lin = th.lin]

\* the with block is left: the lock is released and the operation returns
Release(i) ==
    /\ thr[i].pc = "release"
    /\ lock' = Unlock(i)
    /\ abs' = Atomic(thr[i]).store
    /\ thr' = [thr EXCEPT ![i] =
                  AfterCache([thr[i] EXCEPT !.lin = (thr[i].ret = Atomic(thr[i]).ret),
                                 !.entry = NoEntry, !.expired_keys = {}, !.n = 0])]
    /\ UNCHANGED <<store, now, othersConc>>

\* response = self._get(url, params); data = response.json(); the call raises
\* APIError on an HTTP error and TickerNotFoundError on a body without the symbol
Fetch(i, payload) ==
    /\ thr[i].pc = "fetch"
    /\ thr' = [thr EXCEPT ![i] =
                  IF payload \in {"HTTPError", "empty", "nosymbol"}
                  THEN IdleThread
                  ELSE [thr[i] EXCEPT !.pc = "parse", !.value = payload]]
    /\ UNCHANGED <<store, now, lock, abs, othersConc>>

\* result = self._parse_quote(data), then self._cache_set(cache_key, result, TTL.REALTIME_PRICE)
Parse(i) ==
    /\ thr[i].pc = "parse"
    /\ thr' = [thr EXCEPT ![i].pc = "acquire", ![i].op = "set",
                  ![i].ttl_seconds = TTL_REALTIME_PRICE, ![i].ret = None]
    /\ UNCHANGED <<store, now, lock, abs, othersConc>>

ConcNext ==
    \/ \E i \in Threads, key \in ConcKeys : CallCache(i, "get", key, None, 0)
    \/ \E i \in Threads, key \in ConcKeys, value \in ConcValues, ttl_seconds \in TTLs :
          CallCache(i, "set", key, value, ttl_seconds)
    \/ \E i \in Threads, key \in ConcKeys : CallCache(i, "delete", key, None, 0)
    \/ \E i \in Threads : CallCache(i, "clear", <<>>, None, 0)
    \/ \E i \in Threads : CallCache(i, "cleanup", <<>>, None, 0)
    \/ \E i \in Threads, symbol \in ConcSymbols : CallQuote(i, symbol)
    \/ \E i \in Threads : Acquire(i)
    \/ \E i \in Threads : GetEntry(i)
    \/ \E i \in Threads : GetTime(i)
    \/ \E i \in Threads : GetDel(i)
    \/ \E i \in Threads : SetStore(i)
    \/ \E i \in Threads : DelCheck(i)
    \/ \E i \in Threads : DelDel(i)
    \/ \E i \in Threads : ClearStore(i)
    \/ \E i \in Threads : CleanupScan(i)
    \/ \E i \in Threads : CleanupDel(i)
    \/ \E i \in Threads : Release(i)
    \/ \E i \in Threads, payload \in Payloads : Fetch(i, payload)
    \/ \E i \in Threads : Parse(i)
    \/ ClockForward
    \/ ClockBack


(***************************************************************************)
(* Strings are sequences of pieces (characters, or fixed pieces of a       *)
(* format string); str.upper and str.replace(old, "") as Python does them. *)
(***************************************************************************)
UpperChar(c) ==
    CASE c = "t" -> "T" [] c = "h" -> "H" [] c = "y" -> "Y" [] c = "a" -> "A"
      [] c = "o" -> "O" [] c = "x" -> "X" [] c = "u" -> "U" [] c = "i" -> "I"
      [] c = "s" -> "S" [] c = "e" -> "E" [] OTHER -> c

Upper(str) == [i \in 1..Len(str) |-> UpperChar(str[i])]

RECURSIVE RemoveAll(_, _)
RemoveAll(str, old) ==
    IF Len(str) < Len(old) THEN str
    ELSE IF SubSeq(str, 1, Len(old)) = old
         THEN RemoveAll(SubSeq(str, Len(old) + 1, Len(str)), old)
         ELSE <<Head(str)>> \o RemoveAll(Tail(str), old)

\* symbol.upper().replace(".IS", "").replace(".E", "")
NormalizeSymbol(symbol) ==
    RemoveAll(RemoveAll(Upper(symbol), <<".", "I", "S">>), <<".", "E">>)

THYAO == <<"T", "H", "Y", "A", "O">>
XU100 == <<"X", "U", "1", "0", "0">>
XU030 == <<"X", "U", "0", "3", "0">>

\* the symbols callers pass
SymbolInputs ==
    {THYAO, <<"t", "h", "y", "a", "o", ".", "i", "s">>, XU100, <<"x", "u", "1", "0", "0">>}

\* IsYatirimProvider.INDICES (two of its entries)
INDICES == (XU100 :> "BIST 100") @@ (XU030 :> "BIST 30")

\* f"paratic:quote:{symbol}"
ParaticQuoteCacheKey(symbol) == <<"paratic", ":", "quote", ":">> \o symbol

(***************************************************************************)
(* The quote calls of the providers, each call one step: cache lookup,     *)
(* and on a miss one HTTP request, parsing and the cache store.            *)
(***************************************************************************)
Tick == 30
MaxWallClock == 120
MaxRequests == 2

ObjectNames == <<"o1", "o2", "o3", "o4", "o5", "o6">>
Prices == {10}
Delays == {0, Tick}
\* What the upstream answers: the request fails (connection error, timeout,
\* non-2xx status: _get raises), the body is not JSON, the body is empty, the
\* body has no "symbol" (OneEndeks) or its latest row is empty (Paratic), a
\* field that is converted with float()/int() is not a number, or a quote
\* with a last price.
QuotePayloads ==
    {[kind |-> k, last |-> 0] :
        k \in {"HTTPError", "undecodable", "empty", "nosymbol", "nolatest", "badfield"}}
        \cup {[kind |-> "quote", last |-> p] : p \in Prices}

\* _parse_quote / the result dict of get_quote: the keys "name" and "type"
\* are not among those it builds
QuoteDict(symbol, price) ==
    [symbol |-> symbol, last |-> price, name |-> None, type |-> None]

NoCall ==
    [fn |-> None, key |-> <<>>, t |-> 0, reqs |-> 0, payload |-> None,
     outcome |-> None, ret |-> None,
     was |-> [alive |-> FALSE, ref |-> None, t |-> 0, snap |-> QuoteDict(<<>>, 0)]]

NotFilled == [alive |-> FALSE, ref |-> None, t |-> 0, snap |-> QuoteDict(<<>>, 0)]

AllQuoteKeys ==
    {QuoteCacheKey(NormalizeSymbol(symbol)) : symbol \in SymbolInputs}
        \cup {ParaticQuoteCacheKey(NormalizeSymbol(symbol)) : symbol \in SymbolInputs}

ProvIdle ==
    /\ heap = EmptyDict
    /\ http = 0
    /\ call = NoCall
    /\ filled = EmptyDict

QuoteInit ==
    /\ store = EmptyDict
    /\ now = 0
    /\ heap = EmptyDict
    /\ http = 0
    /\ call = NoCall
    /\ filled = [key \in AllQuoteKeys |-> NotFilled]

\* if cached is not None: return cached
CachedNeverUsed(cached) == FALSE

CachedIsUsed(cached) == cached # None

\* What a call does with the answer to its request.  try: response =
\* self._get(...); data = response.json() except Exception: raise APIError;
\* then raise TickerNotFoundError for the answers in rejects; then the fields
\* are converted, float("N/A") raising ValueError.
QuoteOutcome_not_found_wrapped(kind, rejects) ==
    IF kind \in {"HTTPError", "undecodable"} \cup rejects THEN "APIError"
    ELSE IF kind = "badfield" THEN "ValueError"
    ELSE "ok"

QuoteOutcome(kind, rejects) ==
    IF kind \in {"HTTPError", "undecodable"} THEN "APIError"
    ELSE IF kind \in rejects THEN "TickerNotFoundError"
    ELSE IF kind = "badfield" THEN "ValueError"
    ELSE "ok"

\* The cache-aside body shared by get_realtime_quote and get_quote: what the
\* call leaves in the cache and on the heap, the requests it issues and what
\* it returns or raises.  rejects: the payload kinds that mean "no such
\* symbol"; delay: the time the request and the parsing take.  On a hit
\* neither the upstream nor the parser is reached.
CacheAside(key, symbol, payload, rejects, delay) ==
    LET looked == Cache_get(store, key, now)
        ref == ObjectNames[http + 1]
        outcome == QuoteOutcome(payload.kind, rejects)
    IN  IF CachedIsUsed(looked.ret)
        THEN [store |-> looked.store, heap |-> heap, reqs |-> 0, payload |-> None,
              outcome |-> "ok", ret |-> looked.ret, t |-> now]
        ELSE IF outcome # "ok"
        THEN [store |-> looked.store, heap |-> heap, reqs |-> 1,
              payload |-> payload.kind, outcome |-> outcome, ret |-> None,
              t |-> now + delay]
        ELSE [store |-> Cache_set(looked.store, key, ref, TTL_REALTIME_PRICE,
                                  now + delay).store,
              heap |-> DictPut(heap, ref, QuoteDict(symbol, payload.last)),
              reqs |-> 1, payload |-> payload.kind, outcome |-> "ok", ret |-> ref,
              t |-> now + delay]

\* The answers of the upstream and the delays a call can meet: one (unused)
\* when the call is answered from the cache.
Upstream(key) ==
    IF CachedIsUsed(Cache_get(store, key, now).ret)
    THEN {[payload |-> [kind |-> "quote", last |-> 0], delay |-> 0]}
    ELSE {[payload |-> p, delay |-> d] : p \in QuotePayloads, d \in Delays}

\* The record of a call, and of the entry a call stored: the reference, the
\* clock reading of the store and the content stored; an entry stops being
\* alive when a lookup finds it expired.
CallRecord(fn, key, r) ==
    [fn |-> fn, key |-> key, t |-> now, reqs |-> r.reqs, payload |-> r.payload,
     outcome |-> r.outcome, ret |-> r.ret, was |-> filled[key]]

Filled(key, r) ==
    IF r.reqs = 0 THEN filled
    ELSE IF r.outcome = "ok"
    THEN [filled EXCEPT ![key] = [alive |-> TRUE, ref |-> r.ret, t |-> r.t,
                                  snap |-> r.heap[r.ret]]]
    ELSE IF filled[key].alive /\ now > filled[key].t + TTL_REALTIME_PRICE
    THEN [filled EXCEPT ![key] = NotFilled]
    ELSE filled

\* an object lives while the cache or the last caller refers to it
Referenced(r) == {r.store[k].value : k \in DOMAIN r.store} \cup {r.ret}

Step(fn, key, r) ==
    /\ http + r.reqs <= MaxRequests
    /\ r.t <= MaxWallClock
    /\ store' = r.store
    /\ heap' = [ref \in (DOMAIN r.heap) \cap Referenced(r) |-> r.heap[ref]]
    /\ http' = http + r.reqs
    /\ now' = r.t
    /\ call' = CallRecord(fn, key, r)
    /\ filled' = Filled(key, r)
    /\ UNCHANGED othersProv

\* IsYatirimProvider.get_realtime_quote(symbol)
GetRealtimeQuote(symbol) ==
    LET sym == NormalizeSymbol(symbol)
        key == QuoteCacheKey(sym)
    IN  \E u \in Upstream(key) :
            /\ u.payload.kind # "nolatest"
            /\ Step("get_realtime_quote", key,
                    CacheAside(key, sym, u.payload, {"empty", "nosymbol"}, u.delay))

\* ParaticProvider.get_quote(symbol): the body is a list of rows, empty for no
\* data; latest = data[-1], and if not latest: raise TickerNotFoundError
GetQuote(symbol) ==
    LET sym == NormalizeSymbol(symbol)
        key == ParaticQuoteCacheKey(sym)
    IN  \E u \in Upstream(key) :
            /\ u.payload.kind # "nosymbol"
            /\ Step("get_quote", key,
                    CacheAside(key, sym, u.payload, {"empty", "nolatest"}, u.delay))

\* quote["name"] = self.INDICES.get(index_code, index_code); quote["type"] = "index"
Labelled(r, code) ==
    IF r.outcome = "ok"
    THEN [r EXCEPT !.heap = [r.heap EXCEPT ![r.ret].name = INDICES[code],
                                            ![r.ret].type = "index"]]
    ELSE r

\* IsYatirimProvider.get_index_info(index_code): the quote of a known index,
\* with "name" and "type" assigned on the dict get_realtime_quote returned
GetIndexInfo(index_code) ==
    LET code == Upper(index_code)
        sym == NormalizeSymbol(code)
        key == QuoteCacheKey(sym)
    IN  IF code \notin DOMAIN INDICES
        THEN /\ call' = [NoCall EXCEPT !.fn = "get_index_info", !.t = now,
                            !.outcome = "TickerNotFoundError"]
             /\ UNCHANGED <<store, now, heap, http, filled, othersProv>>
        ELSE \E u \in Upstream(key) :
                /\ u.payload.kind # "nolatest"
                /\ Step("get_index_info", key,
                        Labelled(CacheAside(key, sym, u.payload, {"empty", "nosymbol"},
                                            u.delay), code))

\* Time passes between calls (the record of the last call is dropped).
Wait ==
    /\ now + Tick <= MaxWallClock
    /\ now' = now + Tick
    /\ call' = NoCall
    /\ UNCHANGED <<store, heap, http, filled, othersProv>>

\* The wall clock is set back between calls.
SetBack ==
    /\ now - Tick >= 0
    /\ now' = now - Tick
    /\ call' = NoCall
    /\ UNCHANGED <<store, heap, http, filled, othersProv>>

QuoteNext ==
    \/ \E symbol \in SymbolInputs : GetRealtimeQuote(symbol)
    \/ \E symbol \in SymbolInputs : GetQuote(symbol)
    \/ \E index_code \in SymbolInputs : GetIndexInfo(index_code)
    \/ Wait
    \/ SetBack

(***************************************************************************)
(* ParaticProvider.get_history: the cache key it computes from its         *)
(* arguments, and the cache-aside call, one step per call.                 *)
(***************************************************************************)
TTL_OHLCV_HISTORY == 3600

\* start / end: a datetime, or None
NoDate == [day |-> None, hour |-> None]
Datetimes == {[day |-> d, hour |-> "00"] : d \in {"1970-01-05", "1970-01-10"}}

\* datetime.isoformat(): YYYY-MM-DDTHH:MM:SS
IsoFormat(dt) == <<dt.day, "T", dt.hour, ":", "00", ":", "00">>

\* a datetime as seconds since 1970-01-01 00:00:00
DayOfEpoch == ("1970-01-05" :> 4) @@ ("1970-01-10" :> 9)
Seconds(dt) == DayOfEpoch[dt.day] * 86400

\* datetime.now() during the calls: 1970-01-21 00:00:00
HistoryNow == 1728000

\* ParaticProvider.PERIOD_MAP ("ytd": None apart) and INTERVAL_MAP
PERIOD_MAP ==
    ("1d" :> 1) @@ ("5d" :> 5) @@ ("1mo" :> 30) @@ ("3mo" :> 90) @@ ("6mo" :> 180)
        @@ ("1y" :> 365) @@ ("2y" :> 730) @@ ("5y" :> 1825) @@ ("10y" :> 3650)
        @@ ("max" :> 3650)

INTERVAL_MAP ==
    ("1m" :> 1) @@ ("3m" :> 3) @@ ("5m" :> 5) @@ ("15m" :> 15) @@ ("30m" :> 30)
        @@ ("45m" :> 45) @@ ("1h" :> 60) @@ ("1d" :> 1440) @@ ("1wk" :> 10080)
        @@ ("1mo" :> 43200)

HistoryPeriods == {"1mo", "3mo"}
HistoryIntervals == {"1d", "1h"}
HistorySymbols == {<<"t", "h", "y", "a", "o", ".", "i", "s">>}

\* the arguments of a get_history call
HistoryArgs ==
    [symbol : HistorySymbols, period : HistoryPeriods, interval : HistoryIntervals,
     start : Datetimes \cup {NoDate}, end : Datetimes \cup {NoDate}]

\* cache_key = f"paratic:history:{symbol}:{period}:{interval}", then
\* f":{start.isoformat()}" if start, then f":{end.isoformat()}" if end
HistoryCacheKey(symbol, period, interval, start, end) ==
    <<"paratic", ":", "history", ":">> \o symbol \o <<":", period, ":", interval>>
        \o (IF start # NoDate THEN <<":">> \o IsoFormat(start) ELSE <<>>)
        \o (IF end # NoDate THEN <<":">> \o IsoFormat(end) ELSE <<>>)

\* datetime(today.year, 1, 1) at the clock reading t: the clock of the model
\* stays within 1970
YearStart(t) == 0

\* _get_period_days(period) at the clock reading t: for "ytd" the whole days
\* since January 1; else PERIOD_MAP.get(period), 30 when it is None
GetPeriodDays_ytd_default(period, t) ==
    IF period \in DOMAIN PERIOD_MAP THEN PERIOD_MAP[period] ELSE 30

GetPeriodDays(period, t) ==
    IF period = "ytd" THEN (t - YearStart(t)) \div 86400
    ELSE IF period \in DOMAIN PERIOD_MAP THEN PERIOD_MAP[period]
    ELSE 30

\* The date range and granularity a call asks the rows of: end_dt = end or
\* datetime.now(); start_dt = start, or end_dt - timedelta(days) with the
\* days of the period; INTERVAL_MAP.get(interval, 1440).
HistoryQuery(a) ==
    LET end_dt == IF a.end # NoDate THEN Seconds(a.end) ELSE now
    IN  [symbol |-> NormalizeSymbol(a.symbol),
         end_dt |-> end_dt,
         start_dt |-> IF a.start # NoDate THEN Seconds(a.start)
                      ELSE end_dt - GetPeriodDays(a.period, now) * 86400,
         interval_minutes |-> IF a.interval \in DOMAIN INTERVAL_MAP
                              THEN INTERVAL_MAP[a.interval] ELSE 1440]

(***************************************************************************)
(* The rows of a history payload and their parsing.  An item of the list   *)
(* is an object with the timestamp "d" in milliseconds and numeric fields, *)
(* or is malformed: no "d", a "d" that is not a number, a field that is    *)
(* not a number, or an item that is not an object.                         *)
(***************************************************************************)
MaxRows == 2

RowShapes == {"row", "no_d", "bad_d", "bad_field", "not_object"}
RowTimestamps == {172800000, 518400000}
Items ==
    {[shape |-> "row", d |-> d, c |-> c] : d \in RowTimestamps, c \in Prices}
        \cup {[shape |-> sh, d |-> 0, c |-> 0] : sh \in RowShapes \ {"row"}}

SeqsUpTo(S, n) == UNION {[1..k -> S] : k \in 0..n}

\* What the body of the loop does with one item: item.get raises
\* AttributeError on an item that is not an object (not caught); an item
\* without "d" is skipped; timestamp_ms / 1000 raises TypeError (caught, the
\* item skipped); an item outside [start_dt, end_dt] is skipped; float() of a
\* field raises ValueError (caught, the item skipped); else the record.
ParseItem(item, start_dt, end_dt) ==
    IF item.shape = "not_object" THEN "AttributeError"
    ELSE IF item.shape = "no_d" THEN "skip"
    ELSE IF item.shape = "bad_d" THEN "skip"
    ELSE IF item.d \div 1000 < start_dt \/ item.d \div 1000 > end_dt THEN "skip"
    ELSE IF item.shape = "bad_field" THEN "skip"
    ELSE "record"

\* the record of a well-formed item: Date = datetime.fromtimestamp(d / 1000)
Record(item) == [Date |-> item.d \div 1000, Close |-> item.c]

\* df.sort_index(): ascending by Date, every record kept
RECURSIVE SortIndex(_)
InsertByDate(sorted, r) ==
    LET before == SelectSeq(sorted, LAMBDA x : x.Date <= r.Date)
        after == SelectSeq(sorted, LAMBDA x : x.Date > r.Date)
    IN  before \o <<r>> \o after

SortIndex(records) ==
    IF records = <<>> THEN <<>>
    ELSE InsertByDate(SortIndex(SubSeq(records, 1, Len(records) - 1)),
                      records[Len(records)])

\* _parse_response(data, start_dt, end_dt): the exception that escapes the
\* loop, or the frame of the records kept, sorted; an empty frame when none
\* is kept
ParseResponse(data, start_dt, end_dt) ==
    LET parsed == [i \in 1..Len(data) |-> ParseItem(data[i], start_dt, end_dt)]
        kept == SelectSeq(data, LAMBDA item : ParseItem(item, start_dt, end_dt) = "record")
    IN  IF \E i \in 1..Len(data) : parsed[i] = "AttributeError"
        THEN [raised |-> "AttributeError", rows |-> <<>>]
        ELSE [raised |-> None,
              rows |-> SortIndex([i \in 1..Len(kept) |-> Record(kept[i])])]

\* What the request of a history call meets: the request fails, the body is
\* not JSON, or the body is a list of items.
HistoryPayloads ==
    {[kind |-> k, data |-> <<>>] : k \in {"HTTPError", "undecodable"}}
        \cup {[kind |-> "list", data |-> d] : d \in SeqsUpTo(Items, MaxRows)}

\* What _parse_index_history does with one item: item.get raises
\* AttributeError on an item that is not an object (not caught); an item
\* with no or an empty "date" is skipped; date_str[:10] or strptime raises
\* TypeError or ValueError (caught, the item skipped); float() of a field
\* raises ValueError (caught, the item skipped); else the record.
ParseIndexItem(item) ==
    IF item.shape = "not_object" THEN "AttributeError"
    ELSE IF item.shape \in {"no_d", "bad_d", "bad_field"} THEN "skip"
    ELSE "record"

\* the record of a well-formed item: Date = strptime(date_str[:10], "%Y-%m-%d"),
\* the day of the instant the item carries
IndexRecord(item) == [Date |-> (item.d \div 86400000) * 86400, Close |-> item.c]

\* _parse_index_history(data)
ParseIndexHistory(data) ==
    LET parsed == [i \in 1..Len(data) |-> ParseIndexItem(data[i])]
        kept == SelectSeq(data, LAMBDA item : ParseIndexItem(item) = "record")
    IN  IF \E i \in 1..Len(data) : parsed[i] = "AttributeError"
        THEN [raised |-> "AttributeError", rows |-> <<>>]
        ELSE [raised |-> None,
              rows |-> SortIndex([i \in 1..Len(kept) |-> IndexRecord(kept[i])])]

\* try: ... except Exception: raise APIError; if not data: raise
\* DataNotAvailableError; then df, the frame the parser gives
HistoryOutcome(payload, df) ==
    IF payload.kind \in {"HTTPError", "undecodable"}
    THEN [outcome |-> "APIError", rows |-> <<>>]
    ELSE IF payload.data = <<>>
    THEN [outcome |-> "DataNotAvailableError", rows |-> <<>>]
    ELSE IF df.raised # None THEN [outcome |-> df.raised, rows |-> <<>>]
    ELSE [outcome |-> "ok", rows |-> df.rows]

MaxHistoryRequests == 1

NoHistoryArgs ==
    [symbol |-> <<>>, period |-> None, interval |-> None, start |-> NoDate,
     end |-> NoDate]

NoHistoryPayload == [kind |-> None, data |-> <<>>]

NoHistoryCall ==
    [fn |-> None, key |-> <<>>, t |-> 0, reqs |-> 0, outcome |-> None, ret |-> None,
     args |-> NoHistoryArgs, query |-> HistoryQuery(NoHistoryArgs),
     payload |-> NoHistoryPayload]

HistoryInit ==
    /\ store = EmptyDict
    /\ now = HistoryNow
    /\ heap = EmptyDict
    /\ http = 0
    /\ call = NoHistoryCall
    /\ filled = EmptyDict

\* The call once the cache lookup is done: a hit returns the cached frame; a
\* miss issues the request, and stores and returns the frame parsed from the
\* rows of the call's own date range.
HistoryStep(fn, a, key, query, ttl, payload, df) ==
    LET looked == Cache_get(store, key, now)
        ref == ObjectNames[http + 1]
        hit == CachedIsUsed(looked.ret)
        got == HistoryOutcome(payload, df)
        ok == ~hit /\ got.outcome = "ok"
        stored == IF ok THEN Cache_set(looked.store, key, ref, ttl, now).store
                  ELSE looked.store
    IN  /\ store' = stored
        /\ http' = IF hit THEN http ELSE http + 1
        /\ heap' = [r \in {stored[k].value : k \in DOMAIN stored} |->
                      IF ok /\ r = ref THEN [query |-> query, rows |-> got.rows]
                      ELSE heap[r]]
        /\ call' = [fn |-> fn, key |-> key, t |-> now,
                    reqs |-> IF hit THEN 0 ELSE 1,
                    outcome |-> IF hit THEN "ok" ELSE got.outcome,
                    ret |-> IF hit THEN looked.ret ELSE IF ok THEN ref ELSE None,
                    args |-> a, query |-> query,
                    payload |-> IF hit THEN NoHistoryPayload ELSE payload]
        /\ filled' = [k \in DOMAIN stored |-> IF ok /\ k = key THEN query ELSE filled[k]]
        /\ UNCHANGED <<now, othersProv>>

\* The payloads a call can meet: none when it is answered from the cache.
HistoryUpstream(key) ==
    IF CachedIsUsed(Cache_get(store, key, now).ret) THEN {NoHistoryPayload}
    ELSE IF http < MaxHistoryRequests THEN HistoryPayloads
    ELSE {}

\* ParaticProvider.get_history(symbol, period, interval, start, end)
GetHistory(a) ==
    LET symbol == NormalizeSymbol(a.symbol)
        key == HistoryCacheKey(symbol, a.period, a.interval, a.start, a.end)
        query == HistoryQuery(a)
    IN  \E payload \in HistoryUpstream(key) :
            HistoryStep("get_history", a, key, query, TTL_OHLCV_HISTORY, payload,
                        ParseResponse(payload.data, query.start_dt, query.end_dt))

\* the arguments of a get_index_history call
IndexHistoryArgs ==
    [index_code : {<<"x", "u", "1", "0", "0">>},
     start : Datetimes \cup {NoDate}, end : Datetimes \cup {NoDate}]

\* strftime("%d-%m-%Y") of the dates the calls compute
StrfDate ==
    (4 :> "05-01-1970") @@ (9 :> "10-01-1970") @@ (20 :> "21-01-1970")
        @@ (-361 :> "05-01-1969") @@ (-356 :> "10-01-1969") @@ (-345 :> "21-01-1969")

\* end = datetime.now() if end is None; start = end - timedelta(days=365) if
\* start is None
IndexHistoryQuery(a) ==
    LET end == IF a.end # NoDate THEN Seconds(a.end) ELSE now
    IN  [symbol |-> Upper(a.index_code),
         end_dt |-> end,
         start_dt |-> IF a.start # NoDate THEN Seconds(a.start) ELSE end - 365 * 86400,
         interval_minutes |-> 1440]

\* cache_key = f"isyatirim:index_history:{index_code}:{start_str}:{end_str}"
IndexHistoryCacheKey(index_code, start_dt, end_dt) ==
    <<"isyatirim", ":", "index_history", ":">> \o index_code
        \o <<":", StrfDate[start_dt \div 86400], ":", StrfDate[end_dt \div 86400]>>

\* IsYatirimProvider.get_index_history(index_code, start, end)
GetIndexHistory(a) ==
    LET query == IndexHistoryQuery(a)
        key == IndexHistoryCacheKey(query.symbol, query.start_dt, query.end_dt)
    IN  \E payload \in HistoryUpstream(key) :
            HistoryStep("get_index_history", a, key, query, TTL_OHLCV_HISTORY, payload,
                        ParseIndexHistory(payload.data))

HistoryNext ==
    \/ \E a \in HistoryArgs : GetHistory(a)
    \/ \E a \in IndexHistoryArgs : GetIndexHistory(a)

(***************************************************************************)
(* IsYatirimProvider._get_periods: the (year, period) pairs of a financial *)
(* query, the quarterly walk one loop iteration per step.                  *)
(***************************************************************************)
\* count=5 at the call in get_financial_statements
PeriodCount == 5

\* the counts _get_periods is called with
MaxCount == 5
Counts == 1..MaxCount

Years == {2024, 2025}
Months == 1..12
Dates == [year : Years, month : Months]

NoWalk ==
    [pc |-> "idle", current_year |-> 0, current_month |-> 0, quarterly |-> FALSE,
     count |-> 0, year |-> 0, period |-> 0, periods |-> <<>>]

CalIdle ==
    /\ today = [year |-> 2025, month |-> 1]
    /\ walk = NoWalk

\* if current_month <= 2: ... elif <= 5: ... elif <= 8: ... elif <= 11: ... else: ...
StartQuarter_by_calendar(current_year, current_month) ==
    IF current_month <= 3 THEN [year |-> current_year - 1, period |-> 12]
    ELSE IF current_month <= 6 THEN [year |-> current_year, period |-> 3]
    ELSE IF current_month <= 9 THEN [year |-> current_year, period |-> 6]
    ELSE [year |-> current_year, period |-> 9]

StartQuarter(current_year, current_month) ==
    IF current_month <= 2 THEN [year |-> current_year - 1, period |-> 9]
    ELSE IF current_month <= 5 THEN [year |-> current_year - 1, period |-> 12]
    ELSE IF current_month <= 8 THEN [year |-> current_year, period |-> 3]
    ELSE IF current_month <= 11 THEN [year |-> current_year, period |-> 6]
    ELSE [year |-> current_year, period |-> 9]

\* period -= 3; if period <= 0: period = 12; year -= 1
PreviousQuarter_same_year(year, period) ==
    IF period - 3 <= 0 THEN [year |-> year, period |-> 12]
    ELSE [year |-> year, period |-> period - 3]

PreviousQuarter(year, period) ==
    IF period - 3 <= 0 THEN [year |-> year - 1, period |-> 12]
    ELSE [year |-> year, period |-> period - 3]

\* the quarterly loop, n iterations from (year, period)
RECURSIVE QuarterWalk(_, _, _)
QuarterWalk(year, period, n) ==
    IF n = 0 THEN <<>>
    ELSE LET prev == PreviousQuarter(year, period)
         IN  <<[year |-> year, period |-> period]>>
                 \o QuarterWalk(prev.year, prev.period, n - 1)

\* for i in range(count): periods.append((current_year - 1 - i, 12))
AnnualPeriods_from_current(current_year, count) ==
    [i \in 1..count |-> [year |-> current_year - (i - 1), period |-> 12]]

AnnualPeriods(current_year, count) ==
    [i \in 1..count |-> [year |-> current_year - i, period |-> 12]]

\* _get_periods(current_year, quarterly, count) in the month current_month
GetPeriods(current_year, current_month, quarterly, count) ==
    IF quarterly
    THEN LET start == StartQuarter(current_year, current_month)
         IN  QuarterWalk(start.year, start.period, count * 4)
    ELSE AnnualPeriods(current_year, count)

\* The call of _get_periods, up to the loop: the annual list is built here.
PeriodsCall(quarterly, count) ==
    /\ walk.pc = "idle"
    /\ LET start == StartQuarter(today.year, today.month)
       IN  walk' = [pc |-> IF quarterly THEN "loop" ELSE "return",
                    current_year |-> today.year, current_month |-> today.month,
                    quarterly |-> quarterly, count |-> count,
                    year |-> IF quarterly THEN start.year ELSE 0,
                    period |-> IF quarterly THEN start.period ELSE 0,
                    periods |-> IF quarterly THEN <<>>
                                ELSE AnnualPeriods(today.year, count)]
    /\ UNCHANGED <<store, now, provVars, today, othersCal>>

\* One iteration of for _ in range(count * 4).
PeriodsLoop ==
    /\ walk.pc = "loop"
    /\ LET prev == PreviousQuarter(walk.year, walk.period)
           periods == Append(walk.periods, [year |-> walk.year, period |-> walk.period])
       IN  walk' = [walk EXCEPT !.periods = periods,
                                !.year = prev.year,
                                !.period = prev.period,
                                !.pc = IF Len(periods) = walk.count * 4
                                       THEN "return" ELSE "loop"]
    /\ UNCHANGED <<store, now, provVars, today, othersCal>>

\* return periods
PeriodsReturn ==
    /\ walk.pc = "return"
    /\ walk' = NoWalk
    /\ UNCHANGED <<store, now, provVars, today, othersCal>>

PeriodsInit ==
    /\ today \in Dates
    /\ walk = NoWalk

PeriodsNext ==
    \/ \E quarterly \in BOOLEAN, count \in Counts : PeriodsCall(quarterly, count)
    \/ PeriodsLoop
    \/ PeriodsReturn

(***************************************************************************)
(* IsYatirimProvider.get_financial_statements: the cache key, the table    *)
(* requests and what the call returns or raises, one step per call.        *)
(***************************************************************************)
TTL_FINANCIAL_STATEMENTS == 86400
Day == 86400
MaxFinClock == 172800
MaxFinRequests == 3

FINANCIAL_GROUP_INDUSTRIAL == "XI_29"
FINANCIAL_GROUP_BANK == "UFRS"

\* table_map.get(statement_type, ["BILANCO_AKTIF", "BILANCO_PASIF"])
FinancialTables(statement_type) ==
    IF statement_type = "income_stmt" THEN <<"GELIR_TABLOSU">>
    ELSE IF statement_type = "cashflow" THEN <<"NAKIT_AKIM_TABLOSU">>
    ELSE <<"BILANCO_AKTIF", "BILANCO_PASIF">>

\* str(quarterly)
StrBool(b) == IF b THEN "True" ELSE "False"

\* cache_key = f"isyatirim:financial:{symbol}:{statement_type}:{quarterly}"
FinancialCacheKey(symbol, statement_type, quarterly) ==
    <<"isyatirim", ":", "financial", ":">> \o symbol
        \o <<":", statement_type, ":", StrBool(quarterly)>>

FinancialArgs ==
    [symbol : {<<"t", "h", "y", "a", "o">>},
     statement_type : {"balance_sheet", "income_stmt"},
     quarterly : BOOLEAN,
     financial_group : {None, FINANCIAL_GROUP_INDUSTRIAL, FINANCIAL_GROUP_BANK}]

\* What one MaliTablo request meets: the request fails (connection, status),
\* the body is not JSON, the answer has no items, or it has rows.
TableAnswers == {"HTTPError", "undecodable", "empty", "rows"}

\* _fetch_financial_table: "APIError" for a failed request or body, else
\* whether the parsed frame has rows
FetchFinancialTable(answer) ==
    IF answer \in {"HTTPError", "undecodable"} THEN "APIError"
    ELSE IF answer = "rows" THEN "frame"
    ELSE "empty"

\* for table_name in tables: try: ... if not df.empty: all_data.append(df)
\* except Exception: continue -- the tables whose frame has rows
AllData(tables, answers) ==
    SelectSeq([i \in 1..Len(tables) |->
                  [table |-> tables[i], got |-> FetchFinancialTable(answers[i])]],
              LAMBDA d : d.got = "frame")

\* the frame a call builds: the rows upstream gave for this company, group,
\* tables and periods (periods[:5])
FinancialFrame(symbol, financial_group, all_data, periods) ==
    [symbol |-> symbol, financial_group |-> financial_group,
     tables |-> [i \in 1..Len(all_data) |-> all_data[i].table],
     periods |-> SubSeq(periods, 1, 5)]

NoFinancialCall ==
    [fn |-> None, args |-> None, key |-> <<>>, t |-> 0, reqs |-> 0, answers |-> <<>>,
     outcome |-> None, ret |-> None]

FinancialInit ==
    /\ store = EmptyDict
    /\ now = 0
    /\ heap = EmptyDict
    /\ http = 0
    /\ call = NoFinancialCall
    /\ filled = EmptyDict
    /\ today = [year |-> 2025, month |-> 6]
    /\ walk = NoWalk

GetFinancialStatements(a, answers) ==
    LET symbol == NormalizeSymbol(a.symbol)
        key == FinancialCacheKey(symbol, a.statement_type, a.quarterly)
        looked == Cache_get(store, key, now)
        hit == CachedIsUsed(looked.ret)
        financial_group == IF a.financial_group = None
                           THEN FINANCIAL_GROUP_INDUSTRIAL ELSE a.financial_group
        tables == FinancialTables(a.statement_type)
        periods == GetPeriods(today.year, today.month, a.quarterly, PeriodCount)
        all_data == AllData(tables, answers)
        ok == ~hit /\ all_data # <<>>
        ref == ObjectNames[http + 1]
        stored == IF ok
                  THEN Cache_set(looked.store, key, ref, TTL_FINANCIAL_STATEMENTS,
                                 now).store
                  ELSE looked.store
    IN  /\ Len(answers) = IF hit THEN 0 ELSE Len(tables)
        /\ http + Len(answers) <= MaxFinRequests
        /\ store' = stored
        /\ http' = http + Len(answers)
        /\ heap' = [r \in {stored[k].value : k \in DOMAIN stored} |->
                      IF ok /\ r = ref
                      THEN FinancialFrame(symbol, financial_group, all_data, periods)
                      ELSE heap[r]]
        /\ call' = [fn |-> "get_financial_statements", args |-> a, key |-> key,
                    t |-> now, reqs |-> Len(answers), answers |-> answers,
                    outcome |-> IF hit \/ ok THEN "ok" ELSE "DataNotAvailableError",
                    ret |-> IF hit THEN looked.ret ELSE IF ok THEN ref ELSE None]
        /\ UNCHANGED <<now, filled, calVars, othersCal>>

\* Time passes between calls.
FinancialWait ==
    /\ now + Day <= MaxFinClock
    /\ now' = now + Day
    /\ call' = NoFinancialCall
    /\ UNCHANGED <<store, heap, http, filled, calVars, othersCal>>

FinancialNext ==
    \/ \E a \in FinancialArgs :
          \E n \in 0..2 : \E answers \in [1..n -> TableAnswers] :
              GetFinancialStatements(a, answers)
    \/ FinancialWait

(***************************************************************************)
(* KAPProvider and HedeFiyatProvider: the calls that first resolve the     *)
(* symbol to an identifier (the member OID of KAP's company directory, the *)
(* page URL of hedeffiyat's stock list) and then request the data with it. *)
(* heap holds the providers' own caches.                                   *)
(***************************************************************************)
CACHE_DURATION == 86400
MaxResolveClock == 172800
MaxResolveRequests == 3

ResolveSymbols == {<<"t", "h", "y", "a", "o">>, <<"x", "u", "1", "0", "0">>}

\* What a request meets: it raises (connection error, timeout), or it is
\* answered with a status code and a body.  The body of the directory page
\* has no text or lists the identifiers of some symbols; the body of a data
\* page is empty, holds none of the items looked for, or holds some.
StatusCodes == {200, 404}
Listings == {EmptyDict, THYAO :> "id1"}
NoAnswer == [kind |-> None, status |-> 0, map |-> EmptyDict]
DirectoryAnswers ==
    {[kind |-> "raised", status |-> 0, map |-> EmptyDict]}
        \cup {[kind |-> "notext", status |-> st, map |-> EmptyDict] : st \in StatusCodes}
        \cup {[kind |-> "listing", status |-> st, map |-> listing] :
                 st \in StatusCodes, listing \in Listings}

DataAnswers ==
    {[kind |-> "raised", status |-> 0, map |-> EmptyDict]}
        \cup {[kind |-> k, status |-> st, map |-> EmptyDict] :
                 k \in {"empty", "bare", "page"}, st \in StatusCodes}

\* response.raise_for_status(): the request fails for a status outside 2xx
Strict(answer) ==
    IF answer.kind = "raised" \/ answer.status \notin 200..299
    THEN [answer EXCEPT !.kind = "raised"]
    ELSE answer

\* no raise_for_status(): the body is taken whatever the status
Lenient_checks_status(answer) == Strict(answer)

Lenient(answer) == answer

\* dict.get(key)
DictGet(d, key) == IF key \in DOMAIN d THEN d[key] ELSE None

NoProviderCaches ==
    [oid_map |-> [loaded |-> FALSE, map |-> EmptyDict], oid_cache_time |-> 0,
     details |-> EmptyDict, url_cache |-> EmptyDict]

\* KAPProvider.get_member_oid(symbol): the OID or None, the provider's caches
\* after it, the directory requests issued and whether the page was parsed
GetMemberOid(caches, symbol, directory, t) ==
    LET response == Strict(directory)
    IN  IF caches.oid_map.loaded /\ (t - caches.oid_cache_time) < CACHE_DURATION
        THEN [id |-> DictGet(caches.oid_map.map, symbol), caches |-> caches, reqs |-> 0,
              parsed |-> FALSE]
        ELSE IF response.kind = "raised"
        THEN [id |-> None, caches |-> caches, reqs |-> 1, parsed |-> FALSE]
        ELSE [id |-> DictGet(response.map, symbol),
              caches |-> [caches EXCEPT !.oid_map = [loaded |-> TRUE, map |-> response.map],
                                        !.oid_cache_time = t],
              reqs |-> 1, parsed |-> TRUE]

\* HedeFiyatProvider._get_stock_url(symbol)
GetStockUrl(caches, symbol, directory) ==
    LET response == Lenient(directory)
    IN  IF symbol \in DOMAIN caches.url_cache
        THEN [id |-> caches.url_cache[symbol], caches |-> caches, reqs |-> 0,
              parsed |-> FALSE]
        ELSE IF response.kind \in {"raised", "notext"}
        THEN [id |-> None, caches |-> caches, reqs |-> 1, parsed |-> FALSE]
        ELSE IF symbol \in DOMAIN response.map
        THEN [id |-> response.map[symbol],
              caches |-> [caches EXCEPT !.url_cache =
                             DictPut(caches.url_cache, symbol, response.map[symbol])],
              reqs |-> 1, parsed |-> TRUE]
        ELSE [id |-> None, caches |-> caches, reqs |-> 1, parsed |-> TRUE]

\* if not member_oid: return ... / if not page_url: return result
UnresolvedIgnored(id) == FALSE

Unresolved(id) == id = None

\* The outcome of a call: what it returns or raises, the caches after it, the
\* identifier the resolution gave ("unused" when the call did not resolve),
\* the directory and data requests issued and whether their bodies were
\* parsed.
Resolved(found, cached, store_, dreqs, parsed, outcome, ret) ==
    [id |-> found.id, caches |-> cached, store |-> store_, directory |-> found.reqs,
     parsed_directory |-> found.parsed, data |-> dreqs, parsed_data |-> parsed,
     outcome |-> outcome, ret |-> ret]

Unused == [id |-> "unused", reqs |-> 0, parsed |-> FALSE]

\* KAPProvider.get_disclosures(symbol) and get_calendar(symbol): the frame of
\* the items found on the page, APIError for a failed request
KapFrame(fn, symbol, directory, answer) ==
    LET found == GetMemberOid(heap, symbol, directory, now)
        response == Strict(answer)
    IN  IF Unresolved(found.id)
        THEN Resolved(found, found.caches, store, 0, FALSE, "ok", "default")
        ELSE IF response.kind = "raised"
        THEN Resolved(found, found.caches, store, 1, FALSE, "APIError", None)
        ELSE Resolved(found, found.caches, store, 1, TRUE, "ok",
                      IF response.kind = "page" THEN "data" ELSE "empty")

\* KAPProvider.get_company_details(symbol)
KapDetails(symbol, directory, answer) ==
    LET found == GetMemberOid(heap, symbol, directory, now)
        response == Strict(answer)
    IN  IF /\ symbol \in DOMAIN heap.details
           /\ (now - heap.details[symbol].t) < CACHE_DURATION
        THEN Resolved(Unused, heap, store, 0, FALSE, "ok", heap.details[symbol].value)
        ELSE IF Unresolved(found.id)
        THEN Resolved(found, found.caches, store, 0, FALSE, "ok", "default")
        ELSE IF response.kind = "raised"
        THEN Resolved(found, found.caches, store, 1, FALSE, "ok", "default")
        ELSE LET result == IF response.kind = "page" THEN "data" ELSE "default"
             IN  Resolved(found,
                          [found.caches EXCEPT !.details =
                              DictPut(found.caches.details, symbol,
                                      [value |-> result, t |-> now])],
                          store, 1, TRUE, "ok", result)

\* cache_key = f"hedeffiyat_{symbol}" / f"hedeffiyat_recsummary_{symbol}"
HedefCacheKey(fn, symbol) ==
    IF fn = "get_price_targets" THEN <<"hedeffiyat", "_">> \o symbol
    ELSE <<"hedeffiyat", "_", "recsummary", "_">> \o symbol

\* HedeFiyatProvider.get_price_targets(symbol) and
\* get_recommendations_summary(symbol): every exception gives the default
\* result; a result that holds analysts is cached
HedefCall(fn, symbol, directory, answer) ==
    LET key == HedefCacheKey(fn, symbol)
        looked == Cache_get(store, key, now)
        found == GetStockUrl(heap, symbol, directory)
        response == Lenient(answer)
    IN  IF CachedIsUsed(looked.ret)
        THEN Resolved(Unused, heap, looked.store, 0, FALSE, "ok", looked.ret)
        ELSE IF Unresolved(found.id)
        THEN Resolved(found, found.caches, looked.store, 0, FALSE, "ok", "default")
        ELSE IF response.kind \in {"raised", "empty"}
        THEN Resolved(found, found.caches, looked.store, 1, FALSE, "ok", "default")
        ELSE IF response.kind = "bare"
        THEN Resolved(found, found.caches, looked.store, 1, TRUE, "ok", "empty")
        ELSE Resolved(found, found.caches,
                      Cache_set(looked.store, key, "data", CACHE_DURATION, now).store,
                      1, TRUE, "ok", "data")

NoResolveCall ==
    [fn |-> None, symbol |-> <<>>, t |-> 0, id |-> None, directory |-> 0, data |-> 0,
     met |-> [directory |-> NoAnswer, data |-> NoAnswer],
     parsed |-> [directory |-> FALSE, data |-> FALSE],
     outcome |-> None, ret |-> None, resolved_at |-> -1]

ResolveInit ==
    /\ store = EmptyDict
    /\ now = 0
    /\ heap = NoProviderCaches
    /\ http = 0
    /\ call = NoResolveCall
    /\ filled = EmptyDict

\* When the resolution a call of fn can reuse was made, -1 when there is
\* none: the KAP map carries its time, filled notes when an entry of the
\* hedeffiyat _url_cache was stored.
ResolvedAt(fn, symbol) ==
    IF fn \in {"get_price_targets", "get_recommendations_summary"}
    THEN IF symbol \in DOMAIN filled THEN filled[symbol] ELSE -1
    ELSE IF heap.oid_map.loaded THEN heap.oid_cache_time ELSE -1

\* The step of a call whose result is r: the requests are drawn only when
\* the call issues them.
ResolveStep(fn, symbol, directory, answer, r) ==
    /\ r.directory = 0 => directory = NoAnswer
    /\ r.directory = 1 => directory # NoAnswer
    /\ r.data = 0 => answer = NoAnswer
    /\ r.data = 1 => answer # NoAnswer
    /\ http + r.directory + r.data <= MaxResolveRequests
    /\ store' = r.store
    /\ heap' = r.caches
    /\ http' = http + r.directory + r.data
    /\ call' = [fn |-> fn, symbol |-> symbol, t |-> now, id |-> r.id,
                directory |-> r.directory, data |-> r.data,
                met |-> [directory |-> directory, data |-> answer],
                parsed |-> [directory |-> r.parsed_directory, data |-> r.parsed_data],
                outcome |-> r.outcome, ret |-> r.ret,
                resolved_at |-> ResolvedAt(fn, symbol)]
    /\ filled' = IF r.caches.url_cache # heap.url_cache
                 THEN DictPut(filled, symbol, now)
                 ELSE filled
    /\ UNCHANGED <<now, othersProv>>

GetDisclosures(symbol, directory, answer) ==
    LET sym == NormalizeSymbol(symbol)
    IN  ResolveStep("get_disclosures", sym, directory, answer,
                    KapFrame("get_disclosures", sym, directory, answer))

GetCalendar(symbol, directory, answer) ==
    LET sym == NormalizeSymbol(symbol)
    IN  ResolveStep("get_calendar", sym, directory, answer,
                    KapFrame("get_calendar", sym, directory, answer))

GetCompanyDetails(symbol, directory, answer) ==
    LET sym == NormalizeSymbol(symbol)
    IN  ResolveStep("get_company_details", sym, directory, answer,
                    KapDetails(sym, directory, answer))

GetPriceTargets(symbol, directory, answer) ==
    LET sym == NormalizeSymbol(symbol)
    IN  ResolveStep("get_price_targets", sym, directory, answer,
                    HedefCall("get_price_targets", sym, directory, answer))

GetRecommendationsSummary(symbol, directory, answer) ==
    LET sym == NormalizeSymbol(symbol)
    IN  ResolveStep("get_recommendations_summary", sym, directory, answer,
                    HedefCall("get_recommendations_summary", sym, directory, answer))

\* Time passes between calls.
ResolveWait ==
    /\ now + CACHE_DURATION <= MaxResolveClock
    /\ now' = now + CACHE_DURATION
    /\ call' = NoResolveCall
    /\ UNCHANGED <<store, heap, http, filled, othersProv>>

ResolveNext ==
    \/ \E symbol \in ResolveSymbols, directory \in DirectoryAnswers \cup {NoAnswer},
          answer \in DataAnswers \cup {NoAnswer} :
            \/ GetDisclosures(symbol, directory, answer)
            \/ GetCalendar(symbol, directory, answer)
            \/ GetCompanyDetails(symbol, directory, answer)
            \/ GetPriceTargets(symbol, directory, answer)
            \/ GetRecommendationsSummary(symbol, directory, answer)
    \/ ResolveWait

(***************************************************************************)
(* ParaticProvider._get_period_days, applied to the period strings callers *)
(* pass, as the days go by.                                                *)
(***************************************************************************)
HalfDay == 43200
MaxYtdDays == 10

\* the period strings: those of PERIOD_MAP, "ytd", and strings it does not list
PeriodInputs == (DOMAIN PERIOD_MAP) \cup {"ytd", "7w", ""}

NoPeriodDaysCall == [fn |-> None, period |-> None, t |-> 0, ret |-> 0]

PeriodDaysInit ==
    /\ store = EmptyDict
    /\ now = 0
    /\ heap = EmptyDict
    /\ http = 0
    /\ call = NoPeriodDaysCall
    /\ filled = EmptyDict

\* self._get_period_days(period)
PeriodDays(period) ==
    /\ call' = [fn |-> "_get_period_days", period |-> period, t |-> now,
                ret |-> GetPeriodDays(period, now)]
    /\ UNCHANGED <<store, now, heap, http, filled, othersProv>>

\* Time passes between calls.
HalfDayPasses ==
    /\ now + HalfDay <= MaxYtdDays * 86400
    /\ now' = now + HalfDay
    /\ call' = NoPeriodDaysCall
    /\ UNCHANGED <<store, heap, http, filled, othersProv>>

PeriodDaysNext ==
    \/ \E period \in PeriodInputs : PeriodDays(period)
    \/ HalfDayPasses

(***************************************************************************)
(* IsYatirimProvider: the session request before the capital data request  *)
(* (_fetch_sermaye_data) and the retried page request of                   *)
(* get_company_metrics.  A call is followed request by request: call.wire  *)
(* lists the requests it has issued with their answers, call.slept the     *)
(* time.sleep() calls it has made; sleeping moves the clock.               *)
(***************************************************************************)
max_retries == 3
MaxWireRequests == 4
MaxWireClock == 70

WireSymbols == {<<"t", "h", "y", "a", "o">>, <<"t", "h", "y", "a", "o", ".", "i", "s">>}

\* Answers to the capital data request: response.json() fails on a body that
\* is not JSON
SermayeAnswers ==
    {[kind |-> "raised", status |-> 0, map |-> EmptyDict]}
        \cup {[kind |-> k, status |-> st, map |-> EmptyDict] :
                 k \in {"undecodable", "page"}, st \in StatusCodes}

\* f"isyatirim:metrics:{symbol}"
MetricsCacheKey(symbol) == <<"isyatirim", ":", "metrics", ":">> \o symbol

NoWireCall ==
    [fn |-> None, symbol |-> <<>>, pc |-> "done", attempt |-> 0, wire |-> <<>>,
     slept |-> <<>>, last_error |-> None, html |-> None, outcome |-> None,
     ret |-> None]

RequestsInit ==
    /\ store = EmptyDict
    /\ now = 0
    /\ heap = EmptyDict
    /\ http = 0
    /\ call = NoWireCall
    /\ filled = EmptyDict

\* One request of the running call, with the answer it met.
Issue(url, answer) ==
    Append(call.wire, [url |-> url, kind |-> answer.kind, status |-> answer.status])

\* _fetch_sermaye_data(symbol) is entered
FetchSermayeData(symbol) ==
    /\ call.pc = "done"
    /\ http + 2 <= MaxWireRequests
    /\ call' = [NoWireCall EXCEPT !.fn = "_fetch_sermaye_data",
                                  !.symbol = NormalizeSymbol(symbol),
                                  !.pc = "session"]
    /\ UNCHANGED <<store, now, heap, http, filled, othersProv>>

\* _get_session_for_stock: try: self._client.get(...) except Exception: pass
SessionOutcome_propagates(answer) == IF answer.kind = "raised" THEN "APIError" ELSE "ok"

SessionOutcome(answer) == "ok"

GetSessionForStock(answer) ==
    /\ call.fn = "_fetch_sermaye_data"
    /\ call.pc = "session"
    /\ http' = http + 1
    /\ call' = IF SessionOutcome(answer) = "ok"
               THEN [call EXCEPT !.wire = Issue("sirket-karti", answer), !.pc = "post"]
               ELSE [call EXCEPT !.wire = Issue("sirket-karti", answer), !.pc = "done",
                                 !.outcome = SessionOutcome(answer)]
    /\ UNCHANGED <<store, now, heap, filled, othersProv>>

\* try: response = self._client.post(...); response.raise_for_status();
\* return response.json() except Exception: raise APIError
PostSermaye(answer) ==
    /\ call.fn = "_fetch_sermaye_data"
    /\ call.pc = "post"
    /\ http' = http + 1
    /\ call' = IF Strict(answer).kind \in {"raised", "undecodable"}
               THEN [call EXCEPT !.wire = Issue("GetSermayeArttirimlari", answer),
                                 !.pc = "done", !.outcome = "APIError"]
               ELSE [call EXCEPT !.wire = Issue("GetSermayeArttirimlari", answer),
                                 !.pc = "done", !.outcome = "ok", !.ret = "data"]
    /\ UNCHANGED <<store, now, heap, filled, othersProv>>

\* get_company_metrics(symbol) up to the retry loop
GetCompanyMetrics(symbol) ==
    LET sym == NormalizeSymbol(symbol)
        looked == Cache_get(store, MetricsCacheKey(sym), now)
    IN  /\ call.pc = "done"
        /\ http + max_retries <= MaxWireRequests
        /\ store' = looked.store
        /\ call' = IF CachedIsUsed(looked.ret)
                   THEN [NoWireCall EXCEPT !.fn = "get_company_metrics", !.symbol = sym,
                                           !.outcome = "ok", !.ret = looked.ret]
                   ELSE [NoWireCall EXCEPT !.fn = "get_company_metrics", !.symbol = sym,
                                           !.pc = "attempt"]
        /\ UNCHANGED <<now, heap, http, filled, othersProv>>

\* if attempt < max_retries - 1: time.sleep(1 * (attempt + 1))
SleepsAfter_every_failure(attempt) == TRUE

SleepsAfter(attempt) == attempt < max_retries - 1

\* for attempt in range(max_retries): the next pass of the loop, or its end
LoopNext(attempt) == IF attempt + 1 < max_retries THEN "attempt" ELSE "after"

\* except Exception as e: every failure of the request is taken alike
Retried(answer) == Strict(answer).kind = "raised"

\* One pass of the loop up to its sleep: the request, then break on an
\* answer, or last_error = e
MetricsAttempt(answer) ==
    /\ call.fn = "get_company_metrics"
    /\ call.pc = "attempt"
    /\ http' = http + 1
    /\ call' = IF Retried(answer)
               THEN [call EXCEPT !.wire = Issue("sirket-karti", answer),
                                 !.last_error = IF answer.kind = "raised" THEN "raised"
                                                ELSE "HTTPStatusError",
                                 !.attempt = IF SleepsAfter(call.attempt) THEN @ ELSE @ + 1,
                                 !.pc = IF SleepsAfter(call.attempt) THEN "sleep"
                                        ELSE LoopNext(call.attempt)]
               ELSE [call EXCEPT !.wire = Issue("sirket-karti", answer),
                                 !.html = answer.kind, !.pc = "after"]
    /\ UNCHANGED <<store, now, heap, filled, othersProv>>

\* time.sleep(1 * (attempt + 1)); continue
MetricsSleep ==
    /\ call.fn = "get_company_metrics"
    /\ call.pc = "sleep"
    /\ now' = now + 1 * (call.attempt + 1)
    /\ call' = [call EXCEPT !.slept = Append(@, 1 * (call.attempt + 1)),
                            !.attempt = @ + 1,
                            !.pc = LoopNext(call.attempt)]
    /\ UNCHANGED <<store, heap, http, filled, othersProv>>

\* After the loop: raise APIError when no attempt gave a page, else read the
\* metrics off the page, cache them and return them.
MetricsFinish ==
    LET result == IF call.html = "page" THEN "data" ELSE "default"
    IN  /\ call.fn = "get_company_metrics"
        /\ call.pc = "after"
        /\ IF call.html = None
           THEN /\ call' = [call EXCEPT !.pc = "done", !.outcome = "APIError"]
                /\ UNCHANGED store
           ELSE /\ call' = [call EXCEPT !.pc = "done", !.outcome = "ok", !.ret = result]
                /\ store' = Cache_set(store, MetricsCacheKey(call.symbol), result,
                                      TTL_REALTIME_PRICE, now).store
        /\ UNCHANGED <<now, heap, http, filled, othersProv>>

\* Time passes between calls.
RequestsWait ==
    /\ call.pc = "done"
    /\ now + TTL_REALTIME_PRICE <= MaxWireClock
    /\ now' = now + TTL_REALTIME_PRICE
    /\ call' = NoWireCall
    /\ UNCHANGED <<store, heap, http, filled, othersProv>>

\* The steps of a call that has been entered.
RequestsRun ==
    \/ \E answer \in DataAnswers : GetSessionForStock(answer)
    \/ \E answer \in SermayeAnswers : PostSermaye(answer)
    \/ \E answer \in DataAnswers : MetricsAttempt(answer)
    \/ MetricsSleep
    \/ MetricsFinish

RequestsNext ==
    \/ \E symbol \in WireSymbols : FetchSermayeData(symbol)
    \/ \E symbol \in WireSymbols : GetCompanyMetrics(symbol)
    \/ RequestsRun
    \/ RequestsWait

(***************************************************************************)
(* The provider registries: get_isyatirim_provider(), get_kap_provider().  *)
(* heap holds the module variable _provider of each provider module and    *)
(* the number of instances constructed; thr holds the threads calling the  *)
(* registry functions, which interleave between the statements of          *)
(*     if _provider is None: _provider = XProvider()                       *)
(*     return _provider                                                    *)
(***************************************************************************)
MaxRegistryCalls == 2

ProviderKinds == {"isyatirim", "kap"}

NoInstance == [kind |-> None, n |-> 0]

RegistryIdle ==
    [pc |-> "idle", kind |-> None, obj |-> NoInstance, ret |-> NoInstance,
     calls |-> 0, settled |-> FALSE]

\* No call that found _provider empty is still on its way to assigning it.
Settled(kind) ==
    /\ heap.provider[kind] # NoInstance
    /\ \A t \in Threads : ~(thr[t].kind = kind /\ thr[t].pc \in {"construct", "store"})

RegistryInit ==
    /\ store = EmptyDict
    /\ now = 0
    /\ lock = None
    /\ abs = EmptyDict
    /\ thr = [t \in Threads |-> RegistryIdle]
    /\ heap = [provider |-> [kind \in ProviderKinds |-> NoInstance],
               made |-> [kind \in ProviderKinds |-> 0]]
    /\ http = 0
    /\ call = NoCall
    /\ filled = EmptyDict

RegistryUnchanged == UNCHANGED <<store, now, lock, abs, http, call, filled, seqVars, calVars>>

\* get_*_provider() is called by thread t
RegistryEnter(t, kind) ==
    /\ thr[t].pc = "idle"
    /\ thr[t].calls < MaxRegistryCalls
    /\ thr' = [thr EXCEPT ![t] = [pc |-> "check", kind |-> kind, obj |-> NoInstance,
                                  ret |-> NoInstance, calls |-> @.calls + 1,
                                  settled |-> Settled(kind)]]
    /\ UNCHANGED heap
    /\ RegistryUnchanged

\* if _provider is None:
MustConstruct_always(provider) == TRUE

MustConstruct(provider) == provider = NoInstance

RegistryCheck(t) ==
    /\ thr[t].pc = "check"
    /\ thr' = [thr EXCEPT ![t].pc = IF MustConstruct(heap.provider[thr[t].kind])
                                    THEN "construct" ELSE "return"]
    /\ UNCHANGED heap
    /\ RegistryUnchanged

\* XProvider(): a new instance
RegistryConstruct(t) ==
    LET kind == thr[t].kind
    IN  /\ thr[t].pc = "construct"
        /\ heap' = [heap EXCEPT !.made[kind] = @ + 1]
        /\ thr' = [thr EXCEPT ![t].obj = [kind |-> kind, n |-> heap.made[kind] + 1],
                              ![t].pc = "store"]
        /\ RegistryUnchanged

\* _provider = <the new instance>
RegistryStore(t) ==
    /\ thr[t].pc = "store"
    /\ heap' = [heap EXCEPT !.provider[thr[t].kind] = thr[t].obj]
    /\ thr' = [thr EXCEPT ![t].pc = "return"]
    /\ RegistryUnchanged

\* return _provider
RegistryReturn(t) ==
    /\ thr[t].pc = "return"
    /\ thr' = [thr EXCEPT ![t].ret = heap.provider[thr[t].kind], ![t].pc = "idle"]
    /\ UNCHANGED heap
    /\ RegistryUnchanged

RegistryNext ==
    \/ \E t \in Threads, kind \in ProviderKinds : RegistryEnter(t, kind)
    \/ \E t \in Threads : RegistryCheck(t)
    \/ \E t \in Threads : RegistryConstruct(t)
    \/ \E t \in Threads : RegistryStore(t)
    \/ \E t \in Threads : RegistryReturn(t)

(***************************************************************************)
(* The locale number parsers: HedeFiyatProvider._parse_number and          *)
(* ViOpProvider._parse_number.  A text is a sequence of characters; a      *)
(* float is kept as its digits, the integer part without leading zeros and *)
(* the fraction without trailing zeros, so that equal numbers are equal    *)
(* values.                                                                 *)
(***************************************************************************)
MaxTextLen == 4

NumberChars == {"1", "5", ".", ","}
Digits == {"0", "1", "2", "3", "4", "5", "6", "7", "8", "9"}

NumberTexts ==
    SeqsUpTo(NumberChars, MaxTextLen)
        \cup {<<"1", ".", "2", "3", "4", ",", "5", "6">>, <<"1", "2", ",", "5">>,
              <<"1", "2", "3", "4", ".", "5", "6">>, <<" ", "1", "2", ",", "5", " ">>,
              <<"1", ",", "2", "3", "4", ".", "5", "6">>, <<"a", "b", "c">>, <<" ">>}

NoNumber == [ok |-> FALSE, int |-> <<>>, frac |-> <<>>]

\* str.replace(old, new) for single characters; new = <<>> removes
RECURSIVE ReplaceChar(_, _, _)
ReplaceChar(text, old, new) ==
    IF text = <<>> THEN <<>>
    ELSE (IF Head(text) = old THEN new ELSE <<Head(text)>>)
             \o ReplaceChar(Tail(text), old, new)

\* c in text
Contains(text, c) == \E i \in 1..Len(text) : text[i] = c

\* str.strip()
RECURSIVE LStrip(_)
LStrip(text) ==
    IF text # <<>> /\ Head(text) = " " THEN LStrip(Tail(text)) ELSE text

RECURSIVE RStrip(_)
RStrip(text) ==
    IF text # <<>> /\ text[Len(text)] = " "
    THEN RStrip(SubSeq(text, 1, Len(text) - 1))
    ELSE text

Strip(text) == LStrip(RStrip(text))

RECURSIVE DropLeadingZeros(_)
DropLeadingZeros(digits) ==
    IF digits # <<>> /\ Head(digits) = "0" THEN DropLeadingZeros(Tail(digits)) ELSE digits

RECURSIVE DropTrailingZeros(_)
DropTrailingZeros(digits) ==
    IF digits # <<>> /\ digits[Len(digits)] = "0"
    THEN DropTrailingZeros(SubSeq(digits, 1, Len(digits) - 1))
    ELSE digits

AllDigits(text) == \A i \in 1..Len(text) : text[i] \in Digits

\* float(text) for the texts of the model: surrounding blanks are dropped,
\* then digits with at most one "." and at least one digit; anything else
\* raises ValueError (NoNumber)
Float(text) ==
    LET t == Strip(text)
        dots == {i \in 1..Len(t) : t[i] = "."}
        dot == IF dots = {} THEN Len(t) + 1 ELSE CHOOSE i \in dots : TRUE
        int == SubSeq(t, 1, dot - 1)
        frac == SubSeq(t, dot + 1, Len(t))
    IN  IF /\ Cardinality(dots) <= 1
           /\ AllDigits(int)
           /\ AllDigits(frac)
           /\ Len(int) + Len(frac) > 0
        THEN [ok |-> TRUE, int |-> DropLeadingZeros(int), frac |-> DropTrailingZeros(frac)]
        ELSE NoNumber

\* HedeFiyatProvider._parse_number(text)
HedefParseNumber(text) ==
    LET t == Strip(text)
    IN  IF text = <<>> THEN NoNumber
        ELSE IF Contains(t, ",") /\ Contains(t, ".")
        THEN Float(ReplaceChar(ReplaceChar(t, ".", <<>>), ",", <<".">>))
        ELSE IF Contains(t, ",")
        THEN Float(ReplaceChar(t, ",", <<".">>))
        ELSE Float(t)

\* ViOpProvider._parse_number(text)
ViopParseNumber(text) ==
    IF text = <<>> THEN NoNumber
    ELSE Float(ReplaceChar(ReplaceChar(text, ".", <<>>), ",", <<".">>))

NoNumberCall == [fn |-> None, text |-> <<>>, ret |-> NoNumber]

NumbersInit ==
    /\ store = EmptyDict
    /\ now = 0
    /\ heap = EmptyDict
    /\ http = 0
    /\ call = NoNumberCall
    /\ filled = EmptyDict

\* One call of a parser, and its caller taking the result.
ParseNumber(fn, text) ==
    /\ call = NoNumberCall
    /\ call' = [fn |-> fn, text |-> text,
                ret |-> IF fn = "hedeffiyat" THEN HedefParseNumber(text)
                        ELSE ViopParseNumber(text)]
    /\ UNCHANGED <<store, now, heap, http, filled, othersProv>>

NumberTaken ==
    /\ call # NoNumberCall
    /\ call' = NoNumberCall
    /\ UNCHANGED <<store, now, heap, http, filled, othersProv>>

NumbersNext ==
    \/ \E fn \in {"hedeffiyat", "viop"}, text \in NumberTexts : ParseNumber(fn, text)
    \/ NumberTaken

(***************************************************************************)
(* KAPProvider.search over a fixed company list.  Texts are sequences of   *)
(* characters; "Scedil" and "scedil" stand for the Turkish letters S and s *)
(* with cedilla.                                                           *)
(***************************************************************************)
MaxQueryLen == 3

QueryChars == {"a", "A", "s", "scedil", ".", " "}

\* The rows of get_companies(), in upstream order
Companies ==
    << [ticker |-> <<"A", "S", "A">>, name |-> <<"A", "s", "a", " ", "A", ".", "S", ".">>],
       [ticker |-> <<"A", "S">>, name |-> <<"S", "a", "s">>],
       [ticker |-> <<"S", "A">>, name |-> <<"Scedil", "a", "s", "a">>],
       [ticker |-> <<"A">>, name |-> <<"S", "a", "s">>],
       [ticker |-> <<"S", "A", "S">>, name |-> <<"A", ".", "S">>] >>

Queries == SeqsUpTo(QueryChars, MaxQueryLen)

\* str.upper() and str.lower() on the characters of this section
SearchUpperChar(c) ==
    CASE c = "a" -> "A" [] c = "s" -> "S" [] c = "scedil" -> "Scedil" [] OTHER -> c

SearchUpper(text) == [i \in 1..Len(text) |-> SearchUpperChar(text[i])]

LowerChar(c) ==
    CASE c = "A" -> "a" [] c = "S" -> "s" [] c = "Scedil" -> "scedil" [] OTHER -> c

\* text.translate(tr_map): the Turkish letters become their ASCII letters
TranslateChar(c) == IF c \in {"Scedil", "scedil"} THEN "s" ELSE c

\* text.translate(tr_map).lower()
TranslateLower(text) == [i \in 1..Len(text) |-> LowerChar(TranslateChar(text[i]))]

\* The length of the match of \s+a\.s\.? at the head of text, 0 for none
BlankRun(text) ==
    IF \E i \in 1..Len(text) : text[i] # " "
    THEN (CHOOSE i \in 1..Len(text) : text[i] # " " /\ \A j \in 1..(i - 1) : text[j] = " ") - 1
    ELSE Len(text)

SuffixMatch(text) ==
    LET n == BlankRun(text)
    IN  IF n >= 1 /\ Len(text) >= n + 3 /\ SubSeq(text, n + 1, n + 3) = <<"a", ".", "s">>
        THEN IF Len(text) >= n + 4 /\ text[n + 4] = "." THEN n + 4 ELSE n + 3
        ELSE 0

\* re.sub(r"[\.,']|\s+a\.s\.?|\s+anonim sirketi", "", text): the matches are
\* looked for from left to right, the alternatives in their order (no text
\* of the model holds "anonim sirketi")
RECURSIVE RemoveSuffixes(_)
RemoveSuffixes(text) ==
    IF text = <<>> THEN <<>>
    ELSE IF Head(text) \in {".", ",", "'"} THEN RemoveSuffixes(Tail(text))
    ELSE IF SuffixMatch(text) > 0
    THEN RemoveSuffixes(SubSeq(text, SuffixMatch(text) + 1, Len(text)))
    ELSE <<Head(text)>> \o RemoveSuffixes(Tail(text))

\* KAPProvider._normalize_text(text)
NormalizeText(text) == Strip(RemoveSuffixes(TranslateLower(text)))

\* str.startswith and the in operator of strings
StartsWith(text, prefix) ==
    Len(prefix) <= Len(text) /\ SubSeq(text, 1, Len(prefix)) = prefix

IsSubstring(part, text) ==
    \E i \in 1..(Len(text) - Len(part) + 1) : SubSeq(text, i, i + Len(part) - 1) = part

\* The score of one row
Score(row, query) ==
    IF SearchUpper(row.ticker) = SearchUpper(query) THEN 1000
    ELSE IF StartsWith(SearchUpper(row.ticker), SearchUpper(query)) THEN 500
    ELSE IF IsSubstring(NormalizeText(query), NormalizeText(row.name)) THEN 100
    ELSE 0

\* for _, row in companies.iterrows(): ... if score > 0: results.append(...)
RECURSIVE Scored(_, _, _)
Scored(rows, i, query) ==
    IF i > Len(rows) THEN <<>>
    ELSE (IF Score(rows[i], query) > 0
          THEN << [score |-> Score(rows[i], query), row |-> i] >>
          ELSE <<>>) \o Scored(rows, i + 1, query)

\* results.sort(key=lambda x: x[0], reverse=True): list.sort is stable, with
\* reverse=True too, so an element goes behind those of equal score
InsertByScore_before_equals(sorted, r) ==
    LET before == SelectSeq(sorted, LAMBDA x : x.score > r.score)
        after == SelectSeq(sorted, LAMBDA x : x.score <= r.score)
    IN  before \o <<r>> \o after

InsertByScore(sorted, r) ==
    LET before == SelectSeq(sorted, LAMBDA x : x.score >= r.score)
        after == SelectSeq(sorted, LAMBDA x : x.score < r.score)
    IN  before \o <<r>> \o after

RECURSIVE SortByScore(_)
SortByScore(results) ==
    IF results = <<>> THEN <<>>
    ELSE InsertByScore(SortByScore(SubSeq(results, 1, Len(results) - 1)),
                       results[Len(results)])

\* KAPProvider.search(query): the rows of the frame returned, as their
\* positions in the company list
Search(query) ==
    IF query = <<>> THEN <<>>
    ELSE LET results == SortByScore(Scored(Companies, 1, query))
         IN  [i \in 1..Len(results) |-> results[i].row]

NoSearchCall == [fn |-> None, query |-> <<>>, ret |-> <<>>]

SearchInit ==
    /\ store = EmptyDict
    /\ now = 0
    /\ heap = EmptyDict
    /\ http = 0
    /\ call = NoSearchCall
    /\ filled = EmptyDict

\* One call of search, and its caller taking the frame.
SearchCall(query) ==
    /\ call = NoSearchCall
    /\ call' = [fn |-> "search", query |-> query, ret |-> Search(query)]
    /\ UNCHANGED <<store, now, heap, http, filled, othersProv>>

SearchTaken ==
    /\ call # NoSearchCall
    /\ call' = NoSearchCall
    /\ UNCHANGED <<store, now, heap, http, filled, othersProv>>

SearchNext ==
    \/ \E query \in Queries : SearchCall(query)
    \/ SearchTaken

(***************************************************************************)
(* IsYatirimProvider.get_major_holders: the page is fetched, the script    *)
(* variable OrtaklikYapisidata is cut out of it, repaired into JSON and    *)
(* decoded, and its elements are made into the rows of the frame.  heap    *)
(* holds the frames the cache refers to.                                   *)
(***************************************************************************)
MaxHolderItems == 2
MaxHolderRequests == 2

HolderSymbols == {<<"t", "h", "y", "a", "o">>, <<"t", "h", "y", "a", "o", ".", "i", "s">>}

\* The elements the decoded array can hold: an object with name and a
\* numeric y (in thousandths), an object without name, without y, with a y
\* that is a text float() rejects, with y null, and an element that is not
\* an object.
HolderShapes == {"record", "no_name", "no_y", "text_y", "null_y", "not_object"}
HolderValues == {50880, 12344}
HolderItems ==
    {[shape |-> "record", y |-> y] : y \in HolderValues}
        \cup {[shape |-> sh, y |-> 0] : sh \in HolderShapes \ {"record"}}

\* What the page request meets: a failure, or a page whose script variable
\* is missing, is empty, cannot be repaired into JSON, or decodes to a list.
HolderPages ==
    {[kind |-> k, data |-> <<>>] : k \in {"HTTPError", "missing", "empty", "undecodable"}}
        \cup {[kind |-> "list", data |-> d] :
                 d \in SeqsUpTo(HolderItems, MaxHolderItems) \ {<<>>}}

NoHolderPage == [kind |-> None, data |-> <<>>]

\* f"isyatirim:major_holders:{symbol}"
HoldersCacheKey(symbol) == <<"isyatirim", ":", "major_holders", ":">> \o symbol

\* round(percentage, 2), on thousandths that are not a tie
Round2(thousandths) == ((thousandths + 5) \div 10) * 10

\* The body of the loop for one item: item.get raises AttributeError on an
\* element that is not an object; float() raises ValueError on a text that
\* is no number and TypeError on None; none of them is caught.
HolderRecord(item) ==
    IF item.shape = "not_object" THEN [raised |-> "AttributeError", row |-> <<>>]
    ELSE IF item.shape = "text_y" THEN [raised |-> "ValueError", row |-> <<>>]
    ELSE IF item.shape = "null_y" THEN [raised |-> "TypeError", row |-> <<>>]
    ELSE [raised |-> None,
          row |-> << [Holder |-> IF item.shape = "no_name" THEN "Unknown" ELSE "name",
                      Percentage |-> IF item.shape = "no_y" THEN 0 ELSE Round2(item.y)] >>]

\* for item in data: ... records.append(...)
RECURSIVE HolderRecords(_)
HolderRecords(data) ==
    IF data = <<>> THEN [raised |-> None, rows |-> <<>>]
    ELSE LET first == HolderRecord(Head(data))
             rest == HolderRecords(Tail(data))
         IN  IF first.raised # None THEN [raised |-> first.raised, rows |-> <<>>]
             ELSE IF rest.raised # None THEN rest
             ELSE [raised |-> None, rows |-> first.row \o rest.rows]

\* What the call does with the page: APIError for a failed request; the
\* empty frame, not cached, for a missing, empty or undecodable variable;
\* else the frame of the records, cached.
HoldersOutcome(page) ==
    IF page.kind = "HTTPError" THEN [outcome |-> "APIError", rows |-> <<>>, cached |-> FALSE]
    ELSE IF page.kind \in {"missing", "empty", "undecodable"}
    THEN [outcome |-> "ok", rows |-> <<>>, cached |-> FALSE]
    ELSE LET records == HolderRecords(page.data)
         IN  IF records.raised # None
             THEN [outcome |-> records.raised, rows |-> <<>>, cached |-> FALSE]
             ELSE [outcome |-> "ok", rows |-> records.rows, cached |-> TRUE]

NoHoldersCall ==
    [fn |-> None, symbol |-> <<>>, reqs |-> 0, page |-> NoHolderPage, outcome |-> None,
     rows |-> <<>>]

HoldersInit ==
    /\ store = EmptyDict
    /\ now = 0
    /\ heap = EmptyDict
    /\ http = 0
    /\ call = NoHoldersCall
    /\ filled = EmptyDict

\* get_major_holders(symbol), the page request meeting page
GetMajorHolders(symbol, page) ==
    LET sym == NormalizeSymbol(symbol)
        key == HoldersCacheKey(sym)
        looked == Cache_get(store, key, now)
        hit == CachedIsUsed(looked.ret)
        ref == ObjectNames[http + 1]
        got == HoldersOutcome(page)
    IN  /\ hit => page = NoHolderPage
        /\ ~hit => page # NoHolderPage /\ http < MaxHolderRequests
        /\ store' = IF ~hit /\ got.cached
                    THEN Cache_set(looked.store, key, ref, TTL_FINANCIAL_STATEMENTS, now).store
                    ELSE looked.store
        /\ heap' = IF ~hit /\ got.cached THEN DictPut(heap, ref, got.rows) ELSE heap
        /\ http' = IF hit THEN http ELSE http + 1
        /\ call' = [fn |-> "get_major_holders", symbol |-> sym,
                    reqs |-> IF hit THEN 0 ELSE 1, page |-> page,
                    outcome |-> IF hit THEN "ok" ELSE got.outcome,
                    rows |-> IF hit THEN heap[looked.ret] ELSE got.rows]
        /\ UNCHANGED <<now, filled, othersProv>>

HoldersNext ==
    \E symbol \in HolderSymbols, page \in HolderPages \cup {NoHolderPage} :
        GetMajorHolders(symbol, page)

(***************************************************************************)
(* EnrichedInfo: the three groups of one instance.  heap holds the         *)
(* instance's _basic_data, _extended_data and _dividend_data (NotLoaded    *)
(* for None) and counts the runs of each group's upstream load.            *)
(***************************************************************************)
MaxInfoLoads == 3

\* _YFINANCE_ALIASES (two of its entries)
YFINANCE_ALIASES ==
    [regularMarketPrice |-> "last", regularMarketPreviousClose |-> "close"]

InfoKeys ==
    {"last", "regularMarketPrice", "close", "regularMarketPreviousClose", "marketCap",
     "dividendYield", "unknown"}

NotLoaded == [loaded |-> FALSE, data |-> EmptyDict]

\* What get_quote answers: APIError, or a quote with or without "close"
QuoteAnswers ==
    {[raised |-> TRUE, data |-> EmptyDict]}
        \cup {[raised |-> FALSE, data |-> [last |-> p]] : p \in {"10", "11"}}
        \cup {[raised |-> FALSE, data |-> [last |-> p, close |-> "9"]] : p \in {"10", "11"}}

\* What get_company_metrics gives: its market_cap, "None" when it raised
MetricsAnswers == {"None", "5000"}

\* What the dividends give: the yield computed from them, "None" when they
\* are empty or raised
DividendAnswers == {"None", "2"}

NoQuoteAnswer == [raised |-> FALSE, data |-> EmptyDict]

\* EnrichedInfo._resolve_key(key)
ResolveKey(key) ==
    IF key \in DOMAIN YFINANCE_ALIASES THEN YFINANCE_ALIASES[key] ELSE key

NoInfoCall ==
    [fn |-> None, key |-> None, outcome |-> None, ret |-> None,
     ran |-> [basic |-> 0, extended |-> 0, dividend |-> 0]]

InfoInit ==
    /\ store = EmptyDict
    /\ now = 0
    /\ heap = [basic |-> NotLoaded, extended |-> NotLoaded, dividend |-> NotLoaded,
               loads |-> [basic |-> 0, extended |-> 0, dividend |-> 0]]
    /\ http = 0
    /\ call = NoInfoCall
    /\ filled = EmptyDict

\* if self._basic_data is None: / if self._extended_data is not None: return
MustLoad_always(group) == TRUE

MustLoad(group) == ~group.loaded

\* EnrichedInfo.__getitem__(key): _load_basic, then _load_extended and
\* _load_dividends as far as the key is not found; each answer is drawn only
\* when its load runs.
GetItem(key, quote, metrics, dividends) ==
    LET resolved_key == ResolveKey(key)
        loadB == MustLoad(heap.basic)
        basic == IF loadB THEN quote.data ELSE heap.basic.data
        failed == loadB /\ quote.raised
        inB == ~failed /\ resolved_key \in DOMAIN basic
        needE == ~failed /\ ~inB
        loadE == needE /\ MustLoad(heap.extended)
        extended == IF loadE THEN [marketCap |-> metrics] ELSE heap.extended.data
        inE == needE /\ resolved_key \in DOMAIN extended
        needD == needE /\ ~inE
        loadD == needD /\ MustLoad(heap.dividend)
        dividend == IF loadD THEN [dividendYield |-> dividends] ELSE heap.dividend.data
        inD == needD /\ resolved_key \in DOMAIN dividend
    IN  /\ loadB => quote # NoQuoteAnswer /\ heap.loads.basic < MaxInfoLoads
        /\ ~loadB => quote = NoQuoteAnswer
        /\ loadE => heap.loads.extended < MaxInfoLoads
        /\ loadD => heap.loads.dividend < MaxInfoLoads
        /\ metrics = None <=> ~loadE
        /\ dividends = None <=> ~loadD
        /\ heap' = [basic |-> IF loadB /\ ~failed THEN [loaded |-> TRUE, data |-> basic]
                              ELSE heap.basic,
                    extended |-> IF loadE THEN [loaded |-> TRUE, data |-> extended]
                                 ELSE heap.extended,
                    dividend |-> IF loadD THEN [loaded |-> TRUE, data |-> dividend]
                                 ELSE heap.dividend,
                    loads |-> [basic |-> heap.loads.basic + (IF loadB THEN 1 ELSE 0),
                               extended |-> heap.loads.extended + (IF loadE THEN 1 ELSE 0),
                               dividend |-> heap.loads.dividend + (IF loadD THEN 1 ELSE 0)]]
        /\ call' = [fn |-> "__getitem__", key |-> key,
                    outcome |-> IF failed THEN "APIError"
                                ELSE IF inB \/ inE \/ inD THEN "ok" ELSE "KeyError",
                    ret |-> IF inB THEN basic[resolved_key]
                            ELSE IF inE THEN extended[resolved_key]
                            ELSE IF inD THEN dividend[resolved_key]
                            ELSE None,
                    ran |-> [basic |-> IF loadB THEN 1 ELSE 0,
                             extended |-> IF loadE THEN 1 ELSE 0,
                             dividend |-> IF loadD THEN 1 ELSE 0]]
        /\ UNCHANGED <<store, now, http, filled, othersProv>>

InfoNext ==
    \E key \in InfoKeys, quote \in QuoteAnswers \cup {NoQuoteAnswer},
       metrics \in MetricsAnswers \cup {None}, dividends \in DividendAnswers \cup {None} :
        GetItem(key, quote, metrics, dividends)

(***************************************************************************)
(* Portfolio: the holdings and the asset cache of one portfolio.  heap     *)
(* holds _holdings (symbol -> Holding), _asset_cache (key -> asset) and    *)
(* the number of assets created so far; an asset is known by its class,    *)
(* its symbol and its number.                                              *)
(***************************************************************************)
MaxAssets == 2
MaxHoldings == 1

LowerLetters ==
    <<"a", "b", "c", "d", "e", "f", "g", "h", "i", "j", "k", "l", "m", "n", "o", "p", "q",
      "r", "s", "t", "u", "v", "w", "x", "y", "z">>
UpperLetters ==
    <<"A", "B", "C", "D", "E", "F", "G", "H", "I", "J", "K", "L", "M", "N", "O", "P", "Q",
      "R", "S", "T", "U", "V", "W", "X", "Y", "Z">>

\* str.upper() on ASCII texts
AsciiUpperChar(c) ==
    IF \E i \in 1..Len(LowerLetters) : LowerLetters[i] = c
    THEN UpperLetters[CHOOSE i \in 1..Len(LowerLetters) : LowerLetters[i] = c]
    ELSE c

AsciiUpper(text) == [i \in 1..Len(text) |-> AsciiUpperChar(text[i])]

\* str.endswith(suffix)
EndsWith(text, suffix) ==
    /\ Len(suffix) <= Len(text)
    /\ SubSeq(text, Len(text) - Len(suffix) + 1, Len(text)) = suffix

\* FX_CURRENCIES, FX_METALS, FX_COMMODITIES (one or two entries of each)
FX_CURRENCIES == {<<"U", "S", "D">>, <<"E", "U", "R">>}
FX_METALS == {<<"g", "r", "a", "m", "-", "a", "l", "t", "i", "n">>}
FX_COMMODITIES == {<<"B", "R", "E", "N", "T">>}

PortfolioSymbols ==
    {<<"T", "H", "Y", "A", "O">>, <<"g", "r", "a", "m", "-", "a", "l", "t", "i", "n">>,
     <<"b", "t", "c", "t", "r", "y">>, <<"u", "s", "d">>}

AssetTypes == {"stock", "fx", "crypto", "fund"}
NoCost == -1
Costs == {5}
CurrentPrice == 10

\* _detect_asset_type(symbol)
DetectAssetType(symbol) ==
    LET upper == AsciiUpper(symbol)
    IN  IF upper \in FX_CURRENCIES \/ symbol \in FX_METALS \/ upper \in FX_COMMODITIES
        THEN "fx"
        ELSE IF EndsWith(symbol, <<"T", "R", "Y">>) /\ Len(symbol) > 5 THEN "crypto"
        ELSE "stock"

\* _get_asset(symbol, asset_type): the class of the new asset
AssetClass(asset_type) ==
    CASE asset_type = "fx" -> "FX" [] asset_type = "crypto" -> "Crypto"
      [] asset_type = "fund" -> "Fund" [] OTHER -> "Ticker"

\* cache_key = f"{symbol}_{asset_type}"
AssetCacheKey(symbol, asset_type) == symbol \o <<"_", asset_type>>

\* Portfolio._get_or_create_asset(symbol, asset_type) on the portfolio p
GetOrCreateAsset(p, symbol, asset_type) ==
    LET cache_key == AssetCacheKey(symbol, asset_type)
    IN  IF cache_key \in DOMAIN p.asset_cache THEN p
        ELSE [p EXCEPT !.asset_cache =
                           DictPut(p.asset_cache, cache_key,
                                   [cls |-> AssetClass(asset_type), symbol |-> symbol,
                                    n |-> p.made + 1]),
                       !.made = @ + 1]

\* for symbol, holding in self._holdings.items(): _get_or_create_asset(...)
RECURSIVE PriceAll(_, _)
PriceAll(p, symbols) ==
    IF symbols = {} THEN p
    ELSE LET symbol == CHOOSE s \in symbols : TRUE
         IN  PriceAll(GetOrCreateAsset(p, symbol, p.holdings[symbol].asset_type),
                      symbols \ {symbol})

NoPortfolioCall ==
    [fn |-> None, symbol |-> <<>>, asset_type |-> None, outcome |-> None, priced |-> 0]

PortfolioInit ==
    /\ store = EmptyDict
    /\ now = 0
    /\ heap = [holdings |-> EmptyDict, asset_cache |-> EmptyDict, made |-> 0]
    /\ http = 0
    /\ call = NoPortfolioCall
    /\ filled = EmptyDict

PortfolioUnchanged == UNCHANGED <<store, now, http, filled, othersProv>>

\* Portfolio.add(symbol, shares, cost, asset_type); asset_type None stands
\* for no override, cost NoCost for cost=None
PortfolioAdd(symbol_, shares, cost, asset_type) ==
    LET symbol == IF asset_type # "fx" THEN AsciiUpper(symbol_) ELSE symbol_
        detected_type == IF asset_type = None THEN DetectAssetType(symbol)
                         ELSE asset_type
        priced == IF cost = NoCost THEN GetOrCreateAsset(heap, symbol, detected_type)
                  ELSE heap
        asset == priced.asset_cache[AssetCacheKey(symbol, detected_type)]
    IN  /\ priced.made <= MaxAssets
        /\ Cardinality(DOMAIN heap.holdings \cup {symbol}) <= MaxHoldings
        /\ heap' = [priced EXCEPT !.holdings =
                       DictPut(priced.holdings, symbol,
                               [shares |-> shares,
                                cost_per_share |-> IF cost = NoCost THEN CurrentPrice
                                                   ELSE cost,
                                asset_type |-> detected_type])]
        /\ call' = [fn |-> "add", symbol |-> symbol_, asset_type |-> asset_type,
                    outcome |-> "ok",
                    priced |-> IF cost = NoCost THEN asset.n ELSE 0]
        /\ PortfolioUnchanged

\* Portfolio.remove(symbol): dict.pop(symbol, None) removes the entry whose
\* key is the symbol, if there is one
PortfolioRemove(symbol) ==
    LET symbol_upper == AsciiUpper(symbol)
        held == IF symbol \in DOMAIN heap.holdings THEN {symbol}
                ELSE IF symbol_upper \in DOMAIN heap.holdings THEN {symbol_upper}
                ELSE {}
    IN  /\ heap' = [heap EXCEPT !.holdings = DictRemove(@, held),
                                !.asset_cache = DictRemove(@, held \cap DOMAIN @)]
        /\ call' = [NoPortfolioCall EXCEPT !.fn = "remove", !.symbol = symbol,
                                          !.outcome = "ok"]
        /\ PortfolioUnchanged

\* Portfolio.update(symbol, shares, cost)
PortfolioUpdate(symbol_, shares, cost) ==
    LET symbol == IF symbol_ \in DOMAIN heap.holdings THEN symbol_ ELSE AsciiUpper(symbol_)
    IN  /\ IF symbol \notin DOMAIN heap.holdings
           THEN /\ heap' = heap
                /\ call' = [NoPortfolioCall EXCEPT !.fn = "update", !.symbol = symbol_,
                                                  !.outcome = "KeyError"]
           ELSE /\ heap' = [heap EXCEPT !.holdings[symbol].shares = shares,
                                        !.holdings[symbol].cost_per_share =
                                            IF cost = NoCost THEN @ ELSE cost]
                /\ call' = [NoPortfolioCall EXCEPT !.fn = "update", !.symbol = symbol_,
                                                  !.outcome = "ok"]
        /\ PortfolioUnchanged

\* Portfolio.clear()
PortfolioClear ==
    /\ heap' = [heap EXCEPT !.holdings = EmptyDict, !.asset_cache = EmptyDict]
    /\ call' = [NoPortfolioCall EXCEPT !.fn = "clear", !.outcome = "ok"]
    /\ PortfolioUnchanged

\* The reads value, holdings and weights: each prices every holding through
\* _get_or_create_asset
PortfolioRead(fn) ==
    LET priced == PriceAll(heap, DOMAIN heap.holdings)
    IN  /\ priced.made <= MaxAssets
        /\ heap' = priced
        /\ call' = [NoPortfolioCall EXCEPT !.fn = fn, !.outcome = "ok"]
        /\ PortfolioUnchanged

PortfolioNext ==
    \/ \E symbol \in PortfolioSymbols, cost \in Costs \cup {NoCost},
          asset_type \in {None, "fx", "fund"} : PortfolioAdd(symbol, 1, cost, asset_type)
    \/ \E symbol \in PortfolioSymbols : PortfolioRemove(symbol)
    \/ \E symbol \in PortfolioSymbols, cost \in Costs \cup {NoCost} :
          PortfolioUpdate(symbol, 2, cost)
    \/ PortfolioClear
    \/ \E fn \in {"value", "holdings", "weights"} : PortfolioRead(fn)

(***************************************************************************)
(* The two clock readings of a statement request: get_financial_statements *)
(* reads the year, then _get_periods reads the month; the calendar can     *)
(* move on between the two.  walk follows the request, year_at and         *)
(* month_at note the dates of the two readings.                            *)
(***************************************************************************)
NoReading ==
    [pc |-> "idle", quarterly |-> FALSE, current_year |-> 0, current_month |-> 0,
     year_at |-> [year |-> 0, month |-> 0], month_at |-> [year |-> 0, month |-> 0],
     periods |-> <<>>]

ReadingsInit ==
    /\ today \in Dates
    /\ walk = NoReading

\* current_year = datetime.now().year
ReadYear(quarterly) ==
    /\ walk.pc = "idle"
    /\ walk' = [NoReading EXCEPT !.pc = "called", !.quarterly = quarterly,
                                 !.current_year = today.year, !.year_at = today]
    /\ UNCHANGED <<store, now, provVars, today, othersCal>>

\* periods = self._get_periods(current_year, quarterly, count=5), with its
\* current_month = datetime.now().month
ReadMonth ==
    /\ walk.pc = "called"
    /\ walk' = [walk EXCEPT !.pc = "return", !.current_month = today.month,
                            !.month_at = today,
                            !.periods = GetPeriods(walk.current_year, today.month,
                                                   walk.quarterly, PeriodCount)]
    /\ UNCHANGED <<store, now, provVars, today, othersCal>>

ReadingsReturn ==
    /\ walk.pc = "return"
    /\ walk' = NoReading
    /\ UNCHANGED <<store, now, provVars, today, othersCal>>

\* The calendar moves on to the next month.
MonthPasses ==
    /\ today' = IF today.month = 12 THEN [year |-> today.year + 1, month |-> 1]
                ELSE [today EXCEPT !.month = @ + 1]
    /\ today'.year \in Years
    /\ UNCHANGED <<store, now, provVars, walk, othersCal>>

ReadingsNext ==
    \/ \E quarterly \in BOOLEAN : ReadYear(quarterly)
    \/ ReadMonth
    \/ ReadingsReturn
    \/ MonthPasses

(***************************************************************************)
(* KAPProvider.get_member_oid called from several threads.  The provider   *)
(* object is shared: heap holds its _oid_map and _oid_cache_time, thr the  *)
(* frame of each thread's call.  A thread can be switched out between any  *)
(* two statements; each step below reads or writes the shared fields once. *)
(***************************************************************************)
MaxOidCalls == 3

\* The readings time.time() can give: seconds since 1970, far more than
\* CACHE_DURATION, just before and just after a fill made at the first
\* reading goes stale.
OidInstants ==
    {CACHE_DURATION, CACHE_DURATION + 1, 2 * CACHE_DURATION, 2 * CACHE_DURATION + 1}

\* The (stockCode, mkkMemberOid) pairs re.findall gives for the upstream list.
UpstreamMatches == <<<<THYAO, "id1">>, <<XU100, "id2">>>>
UpstreamOid(symbol) ==
    LET at == {i \in 1..Len(UpstreamMatches) : UpstreamMatches[i][1] = symbol}
    IN  IF at = {} THEN None ELSE UpstreamMatches[CHOOSE i \in at : TRUE][2]

OidSymbols == ResolveSymbols
OidAnswers == {"raised", "listing"}

OidIdle ==
    [pc |-> "idle", symbol |-> <<>>, current_time |-> 0, matches |-> <<>>,
     from_map |-> FALSE, ret |-> None]

OidInit ==
    /\ store = EmptyDict
    /\ now = CACHE_DURATION
    /\ lock = None
    /\ thr = [i \in Threads |-> OidIdle]
    /\ abs = EmptyDict
    /\ heap = [oid_map |-> [loaded |-> FALSE, map |-> EmptyDict], oid_cache_time |-> 0]
    /\ http = 0
    /\ call = 0
    /\ filled = EmptyDict

OidUnchanged == <<store, now, lock, abs, filled, seqVars, calVars>>

\* symbol = symbol.upper()...; current_time = time.time()
OidEnter(t, symbol) ==
    /\ thr[t].pc = "idle"
    /\ call < MaxOidCalls
    /\ call' = call + 1
    /\ thr' = [thr EXCEPT ![t] = [OidIdle EXCEPT !.pc = "check",
                                                 !.symbol = NormalizeSymbol(symbol),
                                                 !.current_time = now]]
    /\ UNCHANGED <<heap, http, OidUnchanged>>

\* if self._oid_map is not None and (current_time - self._oid_cache_time) < ...
OidCheck(t) ==
    /\ thr[t].pc = "check"
    /\ thr' = [thr EXCEPT ![t].pc =
                  IF /\ heap.oid_map.loaded
                     /\ (thr[t].current_time - heap.oid_cache_time) < CACHE_DURATION
                  THEN "cached" ELSE "fetch"]
    /\ UNCHANGED <<heap, http, call, OidUnchanged>>

\* return self._oid_map.get(symbol), of the branch that needs no request
OidCached(t) ==
    /\ thr[t].pc = "cached"
    /\ thr' = [thr EXCEPT ![t].pc = "return", ![t].from_map = TRUE,
                          ![t].ret = DictGet(heap.oid_map.map, thr[t].symbol)]
    /\ UNCHANGED <<heap, http, call, OidUnchanged>>

\* response = self._client.get(...); raise_for_status(); re.findall(...)
OidFetch(t, answer) ==
    /\ thr[t].pc = "fetch"
    /\ http' = http + 1
    /\ thr' = [thr EXCEPT ![t] =
                  IF answer = "raised" THEN [@ EXCEPT !.pc = "return", !.ret = None]
                  ELSE [@ EXCEPT !.pc = "reset", !.matches = UpstreamMatches]]
    /\ UNCHANGED <<heap, call, OidUnchanged>>

\* self._oid_map = {}
OidReset(t) ==
    /\ thr[t].pc = "reset"
    /\ heap' = [heap EXCEPT !.oid_map = [loaded |-> TRUE, map |-> EmptyDict]]
    /\ thr' = [thr EXCEPT ![t].pc = "fill"]
    /\ UNCHANGED <<http, call, OidUnchanged>>

\* for oid, codes_str in matches: ... self._oid_map[code] = oid
OidFill(t) ==
    /\ thr[t].pc = "fill"
    /\ IF thr[t].matches = <<>>
       THEN /\ thr' = [thr EXCEPT ![t].pc = "stamp"]
            /\ UNCHANGED heap
       ELSE LET match == Head(thr[t].matches)
            IN  /\ heap' = [heap EXCEPT !.oid_map.map =
                               (match[1] :> match[2]) @@ heap.oid_map.map]
                /\ thr' = [thr EXCEPT ![t].matches = Tail(@)]
    /\ UNCHANGED <<http, call, OidUnchanged>>

\* self._oid_cache_time = current_time
OidStamp(t) ==
    /\ thr[t].pc = "stamp"
    /\ heap' = [heap EXCEPT !.oid_cache_time = thr[t].current_time]
    /\ thr' = [thr EXCEPT ![t].pc = "filled"]
    /\ UNCHANGED <<http, call, OidUnchanged>>

\* return self._oid_map.get(symbol), after the fill
OidFilled(t) ==
    /\ thr[t].pc = "filled"
    /\ thr' = [thr EXCEPT ![t].pc = "return",
                          ![t].ret = DictGet(heap.oid_map.map, thr[t].symbol)]
    /\ UNCHANGED <<heap, http, call, OidUnchanged>>

OidReturn(t) ==
    /\ thr[t].pc = "return"
    /\ thr' = [thr EXCEPT ![t] = OidIdle]
    /\ UNCHANGED <<heap, http, call, OidUnchanged>>

OidTick(t) ==
    /\ t > now
    /\ now' = t
    /\ UNCHANGED <<store, lock, thr, abs, heap, http, call, filled, seqVars, calVars>>

OidNext ==
    \/ \E t \in Threads, symbol \in OidSymbols : OidEnter(t, symbol)
    \/ \E t \in Threads : OidCheck(t)
    \/ \E t \in Threads : OidCached(t)
    \/ \E t \in Threads, answer \in OidAnswers : OidFetch(t, answer)
    \/ \E t \in Threads : OidReset(t)
    \/ \E t \in Threads : OidFill(t)
    \/ \E t \in Threads : OidStamp(t)
    \/ \E t \in Threads : OidFilled(t)
    \/ \E t \in Threads : OidReturn(t)
    \/ \E t \in OidInstants : OidTick(t)

(***************************************************************************)
(* ViOpProvider: _fetch_page and its callers get_futures, get_options and  *)
(* get_all, one step per call.  call records the last call: the requests   *)
(* it made, how many of them failed, and how it ended.                     *)
(***************************************************************************)
MaxViopRequests == 4
MaxViopClock == 120

\* class TTL: the attributes it defines.
TTL_Table ==
    ("REALTIME_PRICE" :> 60) @@ ("OHLCV_HISTORY" :> 3600) @@ ("COMPANY_INFO" :> 3600)
        @@ ("FINANCIAL_STATEMENTS" :> 86400) @@ ("FX_RATES" :> 300)
        @@ ("COMPANY_LIST" :> 86400) @@ ("FUND_DATA" :> 3600)
        @@ ("INFLATION_DATA" :> 86400)

\* TTL.<name>: the value, or AttributeError for a name the class does not define.
TTL_Attribute(name) ==
    IF name \in DOMAIN TTL_Table
    THEN [raised |-> FALSE, value |-> TTL_Table[name]]
    ELSE [raised |-> TRUE, value |-> 0]

ViopCacheKey == "viop:page"

\* What self._get(self.URL) meets: it raises, or a page comes back.
ViopPages == {"HTTPError", "page"}

\* _fetch_page on the cache cache_ after done_ requests, the next request
\* meeting page.
FetchPage(cache_, done_, page) ==
    LET looked == Cache_get(cache_, ViopCacheKey, now)
        soup == ObjectNames[done_ + 1]
        ttl == TTL_Attribute("VIOP")
    IN  IF CachedIsUsed(looked.ret)
        THEN [store |-> looked.store, reqs |-> 0, failed |-> 0, outcome |-> "ok",
              ret |-> looked.ret]
        ELSE IF page = "HTTPError"
        THEN [store |-> looked.store, reqs |-> 1, failed |-> 1, outcome |-> "APIError",
              ret |-> None]
        ELSE IF ttl.raised
        THEN [store |-> looked.store, reqs |-> 1, failed |-> 0, outcome |-> "APIError",
              ret |-> None]
        ELSE [store |-> Cache_set(looked.store, ViopCacheKey, soup, ttl.value, now).store,
              reqs |-> 1, failed |-> 0, outcome |-> "ok", ret |-> soup]

NoViopCall == [fn |-> None, reqs |-> 0, failed |-> 0, outcome |-> None, hit |-> FALSE]

ViopInit ==
    /\ store = EmptyDict
    /\ now = 0
    /\ heap = EmptyDict
    /\ http = 0
    /\ call = NoViopCall
    /\ filled = EmptyDict

\* get_futures(category) / get_options(category): soup = self._fetch_page()
ViopGet(fn, page) ==
    LET r == FetchPage(store, http, page)
    IN  /\ http + r.reqs <= MaxViopRequests
        /\ store' = r.store
        /\ http' = http + r.reqs
        /\ call' = [fn |-> fn, reqs |-> r.reqs, failed |-> r.failed,
                    outcome |-> r.outcome, hit |-> r.reqs = 0]
        /\ UNCHANGED <<now, heap, filled, othersProv>>

\* get_all: {"futures": self.get_futures("all"), "options": self.get_options("all")}
ViopGetAll(page1, page2) ==
    LET r1 == FetchPage(store, http, page1)
        r2 == IF r1.outcome = "ok" THEN FetchPage(r1.store, http + r1.reqs, page2)
              ELSE [r1 EXCEPT !.reqs = 0, !.failed = 0]
    IN  /\ http + r1.reqs + r2.reqs <= MaxViopRequests
        /\ r1.outcome # "ok" => page2 = page1
        /\ store' = r2.store
        /\ http' = http + r1.reqs + r2.reqs
        /\ call' = [fn |-> "get_all", reqs |-> r1.reqs + r2.reqs,
                    failed |-> r1.failed + r2.failed, outcome |-> r2.outcome,
                    hit |-> r1.reqs = 0]
        /\ UNCHANGED <<now, heap, filled, othersProv>>

ViopWait ==
    /\ now + Tick <= MaxViopClock
    /\ now' = now + Tick
    /\ call' = NoViopCall
    /\ UNCHANGED <<store, heap, http, filled, othersProv>>

ViopNext ==
    \/ \E fn \in {"get_futures", "get_options"}, page \in ViopPages : ViopGet(fn, page)
    \/ \E page1, page2 \in ViopPages : ViopGetAll(page1, page2)
    \/ ViopWait

(***************************************************************************)
(* What a provider call leaves in the shared cache, for the calls that     *)
(* look a key up, go to the upstream on a miss and store what they built:  *)
(* each call one step, with the outcome the sections above give it.  call  *)
(* records the last call: its key, its requests and how it ended           *)
(* ("fallback": the default result returned after an APIError).            *)
(***************************************************************************)
MaxFrameRequests == 3
MaxFrameClock == 61

FrameSymbols == {<<"t", "h", "y", "a", "o">>}
FrameHistoryArgs ==
    {a \in HistoryArgs : a.period = "1mo" /\ a.interval = "1d"
                         /\ a.start \in Datetimes /\ a.end \in Datetimes
                         /\ Seconds(a.start) < Seconds(a.end)}
FrameIndexArgs ==
    {a \in IndexHistoryArgs : a.start \in Datetimes /\ a.end \in Datetimes
                              /\ Seconds(a.start) < Seconds(a.end)}
FrameFinancialArgs ==
    {a \in FinancialArgs : a.quarterly /\ a.financial_group = None}

\* f"isyatirim:dividends:{symbol}", f"isyatirim:splits:{symbol}",
\* f"isyatirim:recommendations:{symbol}"
SermayeCacheKey(fn, symbol) ==
    <<"isyatirim", ":",
      CASE fn = "get_dividends" -> "dividends"
        [] fn = "get_capital_increases" -> "splits"
        [] OTHER -> "recommendations",
      ":">> \o symbol

SermayeCalls == {"get_dividends", "get_capital_increases", "get_recommendations"}

\* the ttl of the _cache_set that ends each of the three calls
SermayeTTL(fn) ==
    IF fn = "get_recommendations" THEN TTL_REALTIME_PRICE ELSE TTL_FINANCIAL_STATEMENTS

NoFrameCall ==
    [fn |-> None, key |-> <<>>, reqs |-> 0, outcome |-> None, hit |-> FALSE]

FrameInit ==
    /\ store = EmptyDict
    /\ now = 0
    /\ heap = EmptyDict
    /\ http = 0
    /\ call = NoFrameCall
    /\ filled = EmptyDict

\* self._cache_set(cache_key, result, ttl) is the last statement before the
\* return: it is reached only by a call that neither raised nor returned its
\* default result.
Stores_default_result(outcome) == outcome \in {"ok", "fallback"}
Stores(outcome) == outcome = "ok"

\* The call from its cache lookup on: a hit returns the cached value; a miss
\* makes reqs requests, ends as outcome at the clock reading t, and stores
\* its result for ttl seconds if it reached its _cache_set.
FrameStep(fn, key, ttl, reqs, outcome, t) ==
    LET looked == Cache_get(store, key, now)
        hit == CachedIsUsed(looked.ret)
    IN  /\ hit \/ (http + reqs <= MaxFrameRequests /\ t <= MaxFrameClock)
        /\ store' = IF ~hit /\ Stores(outcome)
                    THEN Cache_set(looked.store, key, fn, ttl, t).store
                    ELSE looked.store
        /\ http' = IF hit THEN http ELSE http + reqs
        /\ now' = IF hit THEN now ELSE t
        /\ call' = [fn |-> fn, key |-> key, reqs |-> IF hit THEN 0 ELSE reqs,
                    outcome |-> IF hit THEN "ok" ELSE outcome, hit |-> hit]
        /\ UNCHANGED <<heap, filled, othersProv>>

\* IsYatirimProvider.get_realtime_quote / ParaticProvider.get_quote
FrameQuote(fn, symbol, payload) ==
    LET sym == NormalizeSymbol(symbol)
    IN  IF fn = "get_realtime_quote"
        THEN /\ payload.kind # "nolatest"
             /\ FrameStep(fn, QuoteCacheKey(sym), TTL_REALTIME_PRICE, 1,
                          QuoteOutcome(payload.kind, {"empty", "nosymbol"}), now)
        ELSE /\ payload.kind # "nosymbol"
             /\ FrameStep(fn, ParaticQuoteCacheKey(sym), TTL_REALTIME_PRICE, 1,
                          QuoteOutcome(payload.kind, {"empty", "nolatest"}), now)

\* ParaticProvider.get_history
FrameHistory(a, payload) ==
    LET query == HistoryQuery(a)
    IN  /\ payload # NoHistoryPayload
        /\ FrameStep("get_history",
                     HistoryCacheKey(NormalizeSymbol(a.symbol), a.period, a.interval,
                                     a.start, a.end),
                     TTL_OHLCV_HISTORY, 1,
                     HistoryOutcome(payload, ParseResponse(payload.data, query.start_dt,
                                                           query.end_dt)).outcome,
                     now)

\* IsYatirimProvider.get_index_history
FrameIndexHistory(a, payload) ==
    LET query == IndexHistoryQuery(a)
    IN  /\ payload # NoHistoryPayload
        /\ FrameStep("get_index_history",
                     IndexHistoryCacheKey(query.symbol, query.start_dt, query.end_dt),
                     TTL_OHLCV_HISTORY, 1,
                     HistoryOutcome(payload, ParseIndexHistory(payload.data)).outcome,
                     now)

\* IsYatirimProvider.get_financial_statements
FrameFinancial(a, answers) ==
    LET tables == FinancialTables(a.statement_type)
    IN  /\ Len(answers) = Len(tables)
        /\ FrameStep("get_financial_statements",
                     FinancialCacheKey(NormalizeSymbol(a.symbol), a.statement_type,
                                       a.quarterly),
                     TTL_FINANCIAL_STATEMENTS, Len(tables),
                     IF AllData(tables, answers) # <<>> THEN "ok"
                     ELSE "DataNotAvailableError",
                     now)

\* the seconds get_company_metrics sleeps after attempts failed passes
RECURSIVE Backoff(_)
Backoff(attempts) ==
    IF attempts = 0 THEN 0
    ELSE Backoff(attempts - 1) + (IF SleepsAfter(attempts - 1) THEN 1 * attempts ELSE 0)

\* IsYatirimProvider.get_company_metrics: the loop ends at the first answer
\* that is not a failure, or after max_retries failures.
FrameMetrics(symbol, answers) ==
    LET n == Len(answers)
        failed == Cardinality({i \in 1..n : Retried(answers[i])})
    IN  /\ \A i \in 1..(n - 1) : Retried(answers[i])
        /\ n = max_retries \/ ~Retried(answers[n])
        /\ FrameStep("get_company_metrics", MetricsCacheKey(NormalizeSymbol(symbol)),
                     TTL_REALTIME_PRICE, n,
                     IF failed = n THEN "APIError" ELSE "ok",
                     now + Backoff(failed))

\* IsYatirimProvider.get_dividends / get_capital_increases /
\* get_recommendations: _fetch_sermaye_data, the default result on APIError,
\* else the parsing (float() of a target price that is no number raises in
\* get_recommendations).
FrameSermaye(fn, symbol, session, answer, target) ==
    /\ SessionOutcome(session) = "ok"
    /\ FrameStep(fn, SermayeCacheKey(fn, NormalizeSymbol(symbol)), SermayeTTL(fn), 2,
                 IF Strict(answer).kind \in {"raised", "undecodable"} THEN "fallback"
                 ELSE IF fn = "get_recommendations" /\ target = "text" THEN "ValueError"
                 ELSE "ok",
                 now)

\* Time passes between calls.
FrameWait ==
    /\ now + TTL_REALTIME_PRICE + 1 <= MaxFrameClock
    /\ now' = now + TTL_REALTIME_PRICE + 1
    /\ call' = NoFrameCall
    /\ UNCHANGED <<store, heap, http, filled, othersProv>>

FrameNext ==
    \/ \E fn \in {"get_realtime_quote", "get_quote"}, symbol \in FrameSymbols,
          payload \in QuotePayloads : FrameQuote(fn, symbol, payload)
    \/ \E a \in FrameHistoryArgs, payload \in HistoryPayloads : FrameHistory(a, payload)
    \/ \E a \in FrameIndexArgs, payload \in HistoryPayloads : FrameIndexHistory(a, payload)
    \/ \E a \in FrameFinancialArgs :
          \E n \in 1..2 : \E answers \in [1..n -> TableAnswers] : FrameFinancial(a, answers)
    \/ \E symbol \in FrameSymbols :
          \E n \in 1..max_retries : \E answers \in [1..n -> DataAnswers] :
              FrameMetrics(symbol, answers)
    \/ \E fn \in SermayeCalls, symbol \in FrameSymbols, session \in DataAnswers,
          answer \in SermayeAnswers, target \in {"number", "text"} :
              FrameSermaye(fn, symbol, session, answer, target)
    \/ FrameWait

(***************************************************************************)
(* The specifications: the Cache used by one caller (Spec), by concurrent  *)
(* threads (SpecConc), under the providers' quote calls (SpecQuote) and    *)
(* under ParaticProvider.get_history (SpecHistory).                        *)
(***************************************************************************)
Init == CacheInit /\ SeqInit /\ ConcIdle /\ ProvIdle /\ CalIdle
Next == CacheNext
Spec == Init /\ [][Next]_vars

ConcInit == CacheInit /\ ConcIdle /\ SeqInit /\ ProvIdle /\ CalIdle
SpecConc == ConcInit /\ [][ConcNext]_vars

QuoteSpecInit == QuoteInit /\ SeqInit /\ ConcIdle /\ CalIdle
SpecQuote == QuoteSpecInit /\ [][QuoteNext]_vars

HistorySpecInit == HistoryInit /\ SeqInit /\ ConcIdle /\ CalIdle
SpecHistory == HistorySpecInit /\ [][HistoryNext]_vars

FinancialSpecInit == SeqInit /\ ConcIdle /\ FinancialInit
SpecFinancial == FinancialSpecInit /\ [][FinancialNext]_vars

ResolveSpecInit == SeqInit /\ ConcIdle /\ CalIdle /\ ResolveInit
SpecResolve == ResolveSpecInit /\ [][ResolveNext]_vars

PeriodDaysSpecInit == SeqInit /\ ConcIdle /\ CalIdle /\ PeriodDaysInit
SpecPeriodDays == PeriodDaysSpecInit /\ [][PeriodDaysNext]_vars

RequestsSpecInit == SeqInit /\ ConcIdle /\ CalIdle /\ RequestsInit
SpecRequests == RequestsSpecInit /\ [][RequestsNext]_vars

\* A call that has been entered runs on: every request is answered or raises
\* (each carries a timeout), and a sleep ends.
SpecRequestsLive == SpecRequests /\ WF_vars(RequestsRun)

RegistrySpecInit == SeqInit /\ CalIdle /\ RegistryInit
SpecRegistry == RegistrySpecInit /\ [][RegistryNext]_vars

NumbersSpecInit == SeqInit /\ ConcIdle /\ CalIdle /\ NumbersInit
SpecNumbers == NumbersSpecInit /\ [][NumbersNext]_vars

SearchSpecInit == SeqInit /\ ConcIdle /\ CalIdle /\ SearchInit
SpecSearch == SearchSpecInit /\ [][SearchNext]_vars

HoldersSpecInit == SeqInit /\ ConcIdle /\ CalIdle /\ HoldersInit
SpecHolders == HoldersSpecInit /\ [][HoldersNext]_vars

InfoSpecInit == SeqInit /\ ConcIdle /\ CalIdle /\ InfoInit
SpecInfo == InfoSpecInit /\ [][InfoNext]_vars

PortfolioSpecInit == SeqInit /\ ConcIdle /\ CalIdle /\ PortfolioInit
SpecPortfolio == PortfolioSpecInit /\ [][PortfolioNext]_vars

ReadingsSpecInit == CacheInit /\ SeqInit /\ ConcIdle /\ ProvIdle /\ ReadingsInit
SpecReadings == ReadingsSpecInit /\ [][ReadingsNext]_vars

OidSpecInit == SeqInit /\ CalIdle /\ OidInit
SpecOid == OidSpecInit /\ [][OidNext]_vars

ViopSpecInit == SeqInit /\ ConcIdle /\ CalIdle /\ ViopInit
SpecViop == ViopSpecInit /\ [][ViopNext]_vars

FrameSpecInit == SeqInit /\ ConcIdle /\ CalIdle /\ FrameInit
SpecFrame == FrameSpecInit /\ [][FrameNext]_vars

PeriodsSpecInit == CacheInit /\ SeqInit /\ ConcIdle /\ ProvIdle /\ PeriodsInit
SpecPeriods == PeriodsSpecInit /\ [][PeriodsNext]_vars

(***************************************************************************)
(* Claims about the Cache (checked under Spec).                            *)
(***************************************************************************)
SameElsewhere(key) ==
    \A k \in Keys \ {key} :
        /\ (k \in DOMAIN store) = (k \in DOMAIN last.pre)
        /\ k \in DOMAIN store => store[k] = last.pre[k]

\* C1: get(key) returns the stored value whenever the entry exists and
\* now <= expires_at; on an expired entry it removes exactly that entry and
\* reports a miss; on an absent key it reports a miss and changes nothing;
\* no get changes the entry of another key.
C1_GetContract ==
    last.op = "get" =>
        LET key == last.key
            pre == last.pre
        IN  /\ (key \in DOMAIN pre /\ last.t <= pre[key].expires_at) =>
                  (last.ret = pre[key].value /\ store = pre)
            /\ (key \in DOMAIN pre /\ last.t > pre[key].expires_at) =>
                  (last.ret = None /\ store = DictRemove(pre, {key}))
            /\ key \notin DOMAIN pre => (last.ret = None /\ store = pre)
            /\ SameElsewhere(key)

\* A get evicted an expired entry while the other key's entry, expired too, stayed.
C1_Witness ==
    /\ last.op = "get"
    /\ last.key \in DOMAIN last.pre
    /\ last.t > last.pre[last.key].expires_at
    /\ last.ret = None
    /\ \E k \in Keys \ {last.key} : k \in DOMAIN store /\ last.t > store[k].expires_at

\* C2 as stated: after set(key, value, ttl) at time t (no later set, delete or
\* clear of the key), a get strictly before t + ttl returns the value and a
\* get at or after t + ttl reports a miss.
C2_Original ==
    (last.op = "get" /\ last.h.set) =>
        LET expiresAt == last.h.t + last.h.ttl
        IN  /\ (last.t < expiresAt /\ ~last.h.evicted) => last.ret = last.h.value
            /\ last.t >= expiresAt => last.ret = None

\* C2 as amended: after set(key, value, ttl) at time t (no later set, delete
\* or clear of the key), a get at a time strictly after t + ttl reports a
\* miss, and a get at a time at or before t + ttl returns the value unless an
\* earlier get or cleanup has already evicted the entry.
C2_ReadsUntilExpiry ==
    (last.op = "get" /\ last.h.set) =>
        LET expiresAt == last.h.t + last.h.ttl
        IN  /\ (last.t <= expiresAt /\ ~last.h.evicted) => last.ret = last.h.value
            /\ last.t > expiresAt => last.ret = None

\* A get exactly at expires_at, after a set with a positive TTL, returned the value.
C2_Witness ==
    /\ last.op = "get"
    /\ last.h.set
    /\ last.h.ttl > 0
    /\ last.t = last.h.t + last.h.ttl
    /\ last.ret = last.h.value

\* C3 as stated: cleanup() at time now removes exactly the keys whose
\* expires_at <= now, leaves every other entry untouched and returns the
\* number of entries removed.
C3_Original ==
    last.op = "cleanup" =>
        LET gone == {k \in DOMAIN last.pre : last.pre[k].expires_at <= last.t}
        IN  /\ store = DictRemove(last.pre, gone)
            /\ last.ret = Cardinality(gone)

\* C3 as amended: cleanup() at time now removes exactly the keys whose
\* expires_at < now (an entry with expires_at = now stays), leaves every
\* other entry untouched and returns the number of entries removed.
C3_CleanupSweep ==
    last.op = "cleanup" =>
        LET gone == {k \in DOMAIN last.pre : last.pre[k].expires_at < last.t}
        IN  /\ DOMAIN store = (DOMAIN last.pre) \ gone
            /\ \A k \in DOMAIN store : store[k] = last.pre[k]
            /\ last.ret = Cardinality(gone)

\* A cleanup removed one expired entry and kept one whose expires_at is now.
C3_Witness ==
    /\ last.op = "cleanup"
    /\ last.ret = 1
    /\ \E k \in DOMAIN store : store[k].expires_at = last.t
    /\ \E k \in DOMAIN last.pre : k \notin DOMAIN store

\* C4: set(key, value, ttl) inserts or replaces the entry of key, expired or
\* not, with expires_at = now + ttl: the store then holds one entry for key,
\* with the value and expiry of this set, and other keys' entries are unchanged.
C4_SetReplaces ==
    last.op = "set" =>
        /\ last.key \in DOMAIN store
        /\ store[last.key] = CacheEntry(last.value, last.t + last.ttl)
        /\ DOMAIN store = (DOMAIN last.pre) \cup {last.key}
        /\ SameElsewhere(last.key)

\* A set replaced a live entry holding another value, with another key stored.
C4_Witness ==
    /\ last.op = "set"
    /\ last.key \in DOMAIN last.pre
    /\ last.pre[last.key].value # last.value
    /\ last.t <= last.pre[last.key].expires_at
    /\ store[last.key].value = last.value
    /\ \E k \in Keys \ {last.key} : k \in DOMAIN store

\* C5 as stated: after set(key, value, 0) no later get(key) returns value,
\* a get at the same clock reading as the set included.
C5_Original ==
    (last.op = "get" /\ last.h.set /\ last.h.ttl = 0) => last.ret # last.h.value

\* C5 as amended: after set(key, value, 0) at clock reading t (no later set,
\* delete or clear of the key), every get(key) at a reading strictly after t
\* reports a miss, and a get at reading t itself, the entry not yet evicted,
\* returns value: the entry is stored with expires_at = t.
C5_ZeroTtlExpiresAfterReading ==
    (last.op = "get" /\ last.h.set /\ last.h.ttl = 0) =>
        /\ last.t > last.h.t => last.ret = None
        /\ (last.t = last.h.t /\ ~last.h.evicted) => last.ret = last.h.value

\* A get one reading after a set with TTL 0 found the entry and evicted it.
C5_Witness ==
    /\ last.op = "get"
    /\ last.h.set
    /\ last.h.ttl = 0
    /\ ~last.h.evicted
    /\ last.t > last.h.t
    /\ last.key \in DOMAIN last.pre
    /\ last.key \notin DOMAIN store
    /\ last.ret = None

(***************************************************************************)
(* Claims about threads on one Cache (checked under SpecConc).             *)
(***************************************************************************)
\* C6: under any interleaving of get, set, delete, clear and cleanup from
\* concurrent threads every operation takes effect atomically: each return
\* value, and the store whenever no operation is in progress, are those of
\* the operations run one at a time in the order they left the lock, and no
\* two threads are ever inside Cache operations together.
C6_OperationsAtomic ==
    /\ lock = None => store = abs
    /\ \A i \in Threads : thr[i].lin
    /\ Cardinality({i \in Threads : thr[i].pc \in InCache}) <= 1

\* A get is between its expiry check and its removal while another thread's
\* set of the same key waits for the lock.
C6_Witness ==
    \E i, j \in Threads :
        /\ thr[i].pc = "get_del"
        /\ thr[j].pc = "acquire"
        /\ thr[j].op = "set"
        /\ thr[j].key = thr[i].key

\* C7: in a provider's cache-aside call the cache lock is held only inside
\* Cache.get and Cache.set: no thread holds it while its HTTP request or its
\* parsing is in progress, so a thread waiting for the lock is held up only
\* by a thread that is inside a Cache operation.
C7_NoLockDuringIO ==
    /\ \A i \in Threads : thr[i].pc \in {"fetch", "parse"} => lock # i
    /\ \A i \in Threads : lock = i => thr[i].pc \in InCache
    /\ (\E i \in Threads : thr[i].pc = "acquire") =>
          (lock = None \/ \E j \in Threads : lock = j /\ thr[j].pc \in InCache)

\* One thread's HTTP request is in progress while another thread, holding
\* the lock, stores an entry under the same key.
C7_Witness ==
    \E i, j \in Threads :
        /\ thr[i].pc = "fetch"
        /\ thr[j].pc = "set_store"
        /\ lock = j
        /\ thr[j].key = thr[i].key

(***************************************************************************)
(* Claims about the providers' quote calls (checked under SpecQuote).      *)
(***************************************************************************)
\* C8: for get_realtime_quote and get_quote, once a successful call has
\* stored a symbol's quote, every further call for the symbol at a clock
\* reading up to the entry's expiry returns that cached quote and issues no
\* HTTP request; a call after the expiry, like a call on an empty cache,
\* issues exactly one request.
C8_CachedQuoteServed ==
    call.fn \in {"get_realtime_quote", "get_quote"} =>
        /\ (call.was.alive /\ call.t <= call.was.t + TTL_REALTIME_PRICE) =>
              (call.reqs = 0 /\ call.outcome = "ok" /\ call.ret = call.was.ref)
        /\ (call.was.alive /\ call.t > call.was.t + TTL_REALTIME_PRICE) => call.reqs = 1
        /\ ~call.was.alive => call.reqs = 1

\* With one request issued so far, a get_quote exactly at the expiry of the
\* entry is answered from the cache.
C8_Witness ==
    /\ call.fn = "get_quote"
    /\ call.was.alive
    /\ call.t = call.was.t + TTL_REALTIME_PRICE
    /\ call.reqs = 0
    /\ call.ret = call.was.ref
    /\ http = 1

\* C9: a value stored in the shared cache is never mutated after insertion:
\* whatever provider calls follow, the value held under a cache key equals
\* the value passed to set, and a cache hit returns that original value.
C9_Original ==
    /\ \A key \in DOMAIN store :
          filled[key].alive => heap[store[key].value] = filled[key].snap
    /\ (call.fn # None /\ call.reqs = 0 /\ call.outcome = "ok" /\ call.was.alive) =>
          heap[call.ret] = call.was.snap

(***************************************************************************)
(* Claims about get_history's cache key (checked under SpecHistory).       *)
(***************************************************************************)
\* C10: two get_history calls on one symbol that differ in period, interval,
\* start or end (each of start and end absent or present) compute different
\* cache keys, so that no call is answered from the entry another stored:
\* the frame a call gets from the cache holds the rows of its own query.
C10_Original ==
    /\ call.fn = "get_history" =>
          \A b \in HistoryArgs :
              (/\ b.symbol = call.args.symbol
               /\ <<b.period, b.interval, b.start, b.end>> #
                     <<call.args.period, call.args.interval, call.args.start,
                       call.args.end>>)
              => HistoryCacheKey(NormalizeSymbol(b.symbol), b.period, b.interval,
                                 b.start, b.end) # call.key
    /\ (call.fn = "get_history" /\ call.reqs = 0) => heap[call.ret].query = call.query

\* C11: two get_financial_statements calls that differ only in the financial
\* group never share a cache entry: a call that returns a frame returns the
\* rows of its own group (financial_group, or XI_29 when it is None).
C11_Original ==
    (call.fn = "get_financial_statements" /\ call.outcome = "ok")
        => heap[call.ret].financial_group =
               (IF call.args.financial_group = None THEN FINANCIAL_GROUP_INDUSTRIAL
                ELSE call.args.financial_group)

\* C12: get_realtime_quote and get_quote raise TickerNotFoundError exactly
\* when the request was answered and the answer reports no such symbol (an
\* empty body, a body without the symbol, an empty latest row), and APIError
\* exactly when the request failed or its body could not be decoded.
C12_ErrorKinds ==
    call.fn \in {"get_realtime_quote", "get_quote"} =>
        /\ call.outcome = "TickerNotFoundError"
               <=> (call.reqs = 1 /\ call.payload \in {"empty", "nosymbol", "nolatest"})
        /\ call.outcome = "APIError"
               <=> (call.reqs = 1 /\ call.payload \in {"HTTPError", "undecodable"})

C12_Witness ==
    /\ call.fn = "get_realtime_quote"
    /\ call.reqs = 1
    /\ call.payload = "nosymbol"
    /\ call.outcome = "TickerNotFoundError"

(***************************************************************************)
(* Claims about the rows of get_history / get_index_history (checked under *)
(* SpecHistory).                                                           *)
(***************************************************************************)
HistoryCalls == {"get_history", "get_index_history"}

\* what the parser of the last call does with an item of its payload
Verdict(item) ==
    IF call.fn = "get_history"
    THEN ParseItem(item, call.query.start_dt, call.query.end_dt)
    ELSE ParseIndexItem(item)

Answered == call.fn \in HistoryCalls /\ call.reqs = 1 /\ call.payload.kind = "list"

\* C13: when the upstream answers rows of which none is usable (each is
\* malformed or outside the requested range), the call raises
\* DataNotAvailableError, returns no frame and stores none in the cache.
C13_Original ==
    (/\ Answered
     /\ call.payload.data # <<>>
     /\ \A i \in 1..Len(call.payload.data) : Verdict(call.payload.data[i]) = "skip")
        => /\ call.outcome = "DataNotAvailableError"
           /\ call.ret = None
           /\ call.key \notin DOMAIN store

\* C14: a malformed row (missing or invalid timestamp, non-numeric field,
\* item that is not an object) is skipped alone: a call answered with n rows
\* of which k are malformed does not fail, and its frame holds the n - k
\* well-formed rows (those of the requested range).
C14_Original ==
    (Answered /\ call.payload.data # <<>>)
        => /\ call.outcome = "ok"
           /\ Len(heap[call.ret].rows) =
                  Cardinality({i \in 1..Len(call.payload.data) :
                      /\ call.payload.data[i].shape = "row"
                      /\ call.fn = "get_history" =>
                            /\ call.payload.data[i].d \div 1000 >= call.query.start_dt
                            /\ call.payload.data[i].d \div 1000 <= call.query.end_dt})

\* C15: the frame a history call returns is ascending by date and has one
\* row per date: consecutive rows have strictly increasing dates.
C15_Original ==
    (call.fn \in HistoryCalls /\ call.outcome = "ok")
        => \A i \in 1..(Len(heap[call.ret].rows) - 1) :
               heap[call.ret].rows[i].Date < heap[call.ret].rows[i + 1].Date

\* C16: a quote call that fails, fails with a typed error of the library
\* (TickerNotFoundError, DataNotAvailableError or APIError), whatever the
\* upstream payload holds.
C16_Original ==
    call.fn \in {"get_realtime_quote", "get_quote"}
        => call.outcome \in {"ok", "TickerNotFoundError", "DataNotAvailableError",
                             "APIError"}

(***************************************************************************)
(* Claims about get_financial_statements (checked under SpecFinancial).    *)
(***************************************************************************)
\* C17: get_financial_statements raises DataNotAvailableError only when the
\* upstream answered and no table had a row; when every table request failed
\* at transport level the call reports the transport failure (APIError).
C17_Original ==
    (call.fn = "get_financial_statements" /\ call.reqs > 0)
        => /\ call.outcome = "DataNotAvailableError"
                 => \E i \in 1..Len(call.answers) :
                        call.answers[i] \notin {"HTTPError", "undecodable"}
           /\ (\A i \in 1..Len(call.answers) : call.answers[i] = "HTTPError")
                 => call.outcome = "APIError"

(***************************************************************************)
(* Claims about the calls that resolve a symbol first (checked under       *)
(* SpecResolve).                                                           *)
(***************************************************************************)
ResolvingCalls ==
    {"get_disclosures", "get_calendar", "get_company_details", "get_price_targets",
     "get_recommendations_summary"}

\* C18: when the resolution of the symbol gives None (the directory request
\* failed, or the directory does not list the symbol), the call returns its
\* empty/default result, raises nothing and issues no data request.
C18_UnresolvedGivesDefault ==
    (call.fn \in ResolvingCalls /\ call.id = None)
        => /\ call.outcome = "ok"
           /\ call.ret = "default"
           /\ call.data = 0

C18_Witness ==
    /\ call.fn = "get_disclosures"
    /\ call.id = None
    /\ call.directory = 1
    /\ ~heap.oid_map.loaded
    /\ call.ret = "default"

(***************************************************************************)
(* Claims about _get_periods (checked under SpecPeriods).                  *)
(***************************************************************************)
\* the documented lag table: per month, the year (relative to the current
\* one) and the period of the latest available quarter
LagTable ==
    <<[back |-> 1, period |-> 9], [back |-> 1, period |-> 9],
      [back |-> 1, period |-> 12], [back |-> 1, period |-> 12],
      [back |-> 1, period |-> 12],
      [back |-> 0, period |-> 3], [back |-> 0, period |-> 3], [back |-> 0, period |-> 3],
      [back |-> 0, period |-> 6], [back |-> 0, period |-> 6], [back |-> 0, period |-> 6],
      [back |-> 0, period |-> 9]>>

Quarters == {3, 6, 9, 12}

\* the anchor of a quarterly walk: the first pair of the list
Anchor ==
    IF walk.periods = <<>> THEN [year |-> walk.year, period |-> walk.period]
    ELSE walk.periods[1]

C20_BackwardWalk ==
    walk.quarterly =>
        LET ps == walk.periods
        IN  /\ \A i \in 1..Len(ps) : ps[i].period \in Quarters
            /\ \A i \in 1..(Len(ps) - 1) :
                  \/ ps[i + 1] = [year |-> ps[i].year, period |-> ps[i].period - 3]
                  \/ ps[i].period = 3 /\ ps[i + 1] = [year |-> ps[i].year - 1, period |-> 12]
            /\ \A i \in 1..(Len(ps) - 4) : ps[i + 4].year = ps[i].year - 1
            /\ \A i, j \in 1..Len(ps) : i # j => ps[i] # ps[j]
            /\ walk.pc = "loop" => walk.period \in Quarters

C20_Witness ==
    /\ walk.pc = "return"
    /\ walk.quarterly
    /\ walk.count = PeriodCount
    /\ Len(walk.periods) = 4 * PeriodCount
    /\ walk.periods[1].period = 3
    /\ walk.periods[2].period = 12

\* C21: a quarterly request for count = N yields exactly N periods, the
\* anchor first: with count = 5 in month 2 of year Y the list returned is
\* (Y-1,9), (Y-1,6), (Y-1,3), (Y-2,12), (Y-2,9).
C21_Original ==
    (walk.pc = "return" /\ walk.quarterly)
        => /\ Len(walk.periods) = walk.count
           /\ (walk.count = 5 /\ walk.current_month = 2)
                 => walk.periods =
                        <<[year |-> walk.current_year - 1, period |-> 9],
                          [year |-> walk.current_year - 1, period |-> 6],
                          [year |-> walk.current_year - 1, period |-> 3],
                          [year |-> walk.current_year - 2, period |-> 12],
                          [year |-> walk.current_year - 2, period |-> 9]>>

\* C22: an annual request for count = N in year Y returns (Y-1,12),
\* (Y-2,12), ..., (Y-N,12), in this order, whatever the month; the current
\* year never appears.
C22_AnnualYears ==
    (walk.pc = "return" /\ ~walk.quarterly)
        => /\ Len(walk.periods) = walk.count
           /\ \A i \in 1..Len(walk.periods) :
                 /\ walk.periods[i] = [year |-> walk.current_year - i, period |-> 12]
                 /\ walk.periods[i].year # walk.current_year

C22_Witness ==
    /\ walk.pc = "return"
    /\ ~walk.quarterly
    /\ walk.count = 3
    /\ walk.current_month = 12
    /\ Len(walk.periods) = 3

(***************************************************************************)
(* Claims about _get_period_days (checked under SpecPeriodDays).           *)
(***************************************************************************)
\* the days of the listed periods
ListedDays ==
    [p \in {"1d", "5d", "1mo", "3mo", "6mo", "1y", "2y", "5y", "10y", "max"} |->
        CASE p = "1d" -> 1 [] p = "5d" -> 5 [] p = "1mo" -> 30 [] p = "3mo" -> 90
          [] p = "6mo" -> 180 [] p = "1y" -> 365 [] p = "2y" -> 730
          [] p = "5y" -> 1825 [] p = "10y" -> 3650 [] p = "max" -> 3650]

\* C23: _get_period_days returns the table value of a listed period, the
\* whole days elapsed since January 1 for "ytd", and 30 for any other
\* string; a get_history call with period "1mo" and neither start nor end
\* asks for the window [now - 30 days, now].
C23_PeriodDays ==
    /\ call.fn = "_get_period_days" =>
          call.ret = (IF call.period \in DOMAIN ListedDays THEN ListedDays[call.period]
                      ELSE IF call.period = "ytd" THEN now \div 86400
                      ELSE 30)
    /\ \A a \in HistoryArgs :
          (a.period = "1mo" /\ a.start = NoDate /\ a.end = NoDate)
              => /\ HistoryQuery(a).end_dt = now
                 /\ HistoryQuery(a).start_dt = now - 30 * 86400

C23_Witness ==
    /\ call.fn = "_get_period_days"
    /\ call.period = "ytd"
    /\ now = 7 * HalfDay
    /\ call.ret = 3

\* C24: a request made through BaseProvider._get that is answered with a
\* status outside 2xx (or fails otherwise) aborts the calling operation with
\* APIError: the operation returns nothing and stores nothing in the cache.
C24_Original ==
    (/\ call.fn = "get_financial_statements"
     /\ \E i \in 1..Len(call.answers) : call.answers[i] = "HTTPError")
        => /\ call.outcome = "APIError"
           /\ call.ret = None
           /\ call.key \notin DOMAIN store

HedefCalls == {"get_price_targets", "get_recommendations_summary"}

\* C25: in the hedeffiyat provider the body of the directory page and of the
\* stock page is parsed whenever it is not empty, whatever the status code
\* of the response; the default result is returned without parsing exactly
\* when the body is empty or the request raised.
C25_Lenient ==
    call.fn \in HedefCalls =>
        /\ call.directory = 1 =>
               /\ call.parsed.directory <=> call.met.directory.kind = "listing"
               /\ ~call.parsed.directory => call.ret = "default"
        /\ call.data = 1 =>
               /\ call.parsed.data <=> call.met.data.kind \in {"bare", "page"}
               /\ ~call.parsed.data <=> call.met.data.kind \in {"raised", "empty"}
               /\ ~call.parsed.data => call.ret = "default"

C25_Witness ==
    /\ call.fn \in HedefCalls
    /\ call.directory = 1
    /\ call.met.directory.status = 404
    /\ call.parsed.directory
    /\ call.data = 1
    /\ call.met.data.status = 404
    /\ call.met.data.kind = "page"
    /\ call.parsed.data
    /\ call.ret = "data"

\* C29: a symbol's resolution (hedeffiyat URL, KAP OID) is kept by the
\* provider for 24 hours: a call that resolves reuses a resolution younger
\* than that without a directory request, and never reuses an older one but
\* asks the directory again.
C29_Original ==
    (call.fn \in ResolvingCalls /\ call.id # "unused" /\ call.resolved_at >= 0) =>
        /\ (call.t - call.resolved_at) < CACHE_DURATION => call.directory = 0
        /\ (call.t - call.resolved_at) > CACHE_DURATION => call.directory = 1

(***************************************************************************)
(* Claims about the requests of IsYatirimProvider (checked under           *)
(* SpecRequests and SpecRequestsLive).                                     *)
(***************************************************************************)
Failed(request) == request.kind = "raised" \/ request.status \notin 200..299

\* C26: _fetch_sermaye_data issues the session request first and the data
\* request after it, the data request exactly once whether the session
\* request succeeded or failed; a failure of the session request never
\* reaches the caller, a failure of the data request surfaces as APIError.
C26_SessionThenData ==
    call.fn = "_fetch_sermaye_data" =>
        /\ Len(call.wire) <= 2
        /\ Len(call.wire) >= 1 => call.wire[1].url = "sirket-karti"
        /\ Len(call.wire) = 2 => call.wire[2].url = "GetSermayeArttirimlari"
        /\ call.pc = "session" <=> Len(call.wire) = 0
        /\ call.pc = "post" <=> Len(call.wire) = 1
        /\ call.pc = "done" <=> Len(call.wire) = 2
        /\ call.pc = "done" =>
               /\ call.outcome = "APIError"
                      <=> (Failed(call.wire[2]) \/ call.wire[2].kind = "undecodable")
               /\ call.outcome # "APIError" => call.outcome = "ok" /\ call.ret = "data"

C26_Witness ==
    /\ call.fn = "_fetch_sermaye_data"
    /\ call.pc = "done"
    /\ Len(call.wire) = 2
    /\ call.wire[1].kind = "raised"
    /\ call.wire[2].kind = "page"
    /\ call.wire[2].status = 200
    /\ call.outcome = "ok"

\* The page requests of a get_company_metrics call, as the retry loop
\* leaves them at every point of the call.
RetryLoopShape ==
    call.fn = "get_company_metrics" =>
        /\ Len(call.wire) <= 3
        /\ \A i \in 1..(Len(call.wire) - 1) : Failed(call.wire[i])
        /\ Len(call.slept) <= 2
        /\ \A k \in 1..Len(call.slept) : call.slept[k] = k /\ Failed(call.wire[k])
        /\ call.pc = "attempt" => Len(call.slept) = Len(call.wire)
        /\ (call.pc \in {"after", "done"} /\ call.wire # <<>>) =>
               /\ Len(call.slept) = Len(call.wire) - 1
               /\ Failed(call.wire[Len(call.wire)]) => Len(call.wire) = 3
        /\ call.pc = "done" =>
               /\ call.outcome = "APIError"
                      <=> (Len(call.wire) = 3 /\ Failed(call.wire[3]))
               /\ call.outcome = "APIError" => call.slept = <<1, 2>>

\* C27: get_company_metrics ends after at most 3 requests: it stops at the
\* first request that succeeds, sleeps k seconds after the k-th failure (1,
\* then 2) only when another request follows, and after the third failure
\* raises APIError without sleeping again.
C27_BoundedRetries ==
    /\ []RetryLoopShape
    /\ (call.fn = "get_company_metrics" /\ call.pc = "attempt")
           ~> (call.fn = "get_company_metrics" /\ call.pc = "done")

C27_Witness ==
    /\ call.fn = "get_company_metrics"
    /\ call.pc = "done"
    /\ Len(call.wire) = 3
    /\ call.slept = <<1, 2>>
    /\ call.outcome = "APIError"

\* C28: a definitive not-found answer (HTTP 404) to get_company_metrics is
\* not retried: one request is made and the error surfaces without a sleep.
C28_Original ==
    (/\ call.fn = "get_company_metrics"
     /\ \E i \in 1..Len(call.wire) : call.wire[i].status = 404)
        => /\ Len(call.wire) = 1
           /\ call.slept = <<>>

(***************************************************************************)
(* Claims about the provider registries (checked under SpecRegistry).      *)
(***************************************************************************)
\* No call of the registry function of kind is under way.
Quiet(kind) == \A t \in Threads : thr[t].pc = "idle" \/ thr[t].kind # kind

\* What holds of the registries in every state: an instance exists only
\* once a call has constructed one, without overlapping calls exactly one is
\* constructed, and a call entered after the registry has settled returns
\* the instance the registry holds.
RegistryShape ==
    /\ \A kind \in ProviderKinds :
           /\ heap.provider[kind] # NoInstance =>
                  /\ heap.provider[kind].kind = kind
                  /\ heap.provider[kind].n \in 1..heap.made[kind]
           /\ (Quiet(kind) /\ heap.made[kind] > 0) => Settled(kind)
    /\ \A t \in Threads :
           (thr[t].settled /\ thr[t].pc = "idle") =>
               /\ thr[t].ret = heap.provider[thr[t].kind]
               /\ thr[t].obj = NoInstance

\* Once the registry of a kind has settled it stays settled and keeps its
\* instance: the module variable is not reset and not replaced.
RegistryStable ==
    \A kind \in ProviderKinds :
        Settled(kind) =>
            /\ heap'.provider[kind] = heap.provider[kind]
            /\ heap'.made[kind] = heap.made[kind]
            /\ \A t \in Threads :
                   (thr'[t].kind = kind /\ thr'[t].pc \notin {"idle", "check"})
                       => thr'[t].pc = "return"

\* C30: each get_*_provider() keeps one instance per provider kind: the
\* first call constructs it and later calls return it; overlapping first
\* calls may construct more than one, but once they have returned the
\* module variable is never reset and every later call returns the same
\* instance.
C30_RegistryConverges == []RegistryShape /\ [][RegistryStable]_vars

C30_Witness ==
    \E kind \in ProviderKinds, t \in Threads :
        /\ heap.made[kind] = 2
        /\ Settled(kind)
        /\ thr[t].kind = kind
        /\ thr[t].settled
        /\ thr[t].pc = "idle"
        /\ thr[t].ret = heap.provider[kind]

(***************************************************************************)
(* Claims about the number parsers (checked under SpecNumbers).            *)
(***************************************************************************)
\* C31: both parsers strip dots as thousands separators only when the text
\* also holds a comma, read a comma as the decimal separator, and give None
\* for a text that is then not a number: "1.234,56" is 1234.56, "12,5" is
\* 12.5, "1234.56" is 1234.56.
C31_Original ==
    LET t == Strip(call.text)
        written == IF Contains(t, ",")
                   THEN ReplaceChar(ReplaceChar(t, ".", <<>>), ",", <<".">>)
                   ELSE t
    IN  call.fn \in {"hedeffiyat", "viop"} =>
            /\ call.ret = Float(written)
            /\ call.text = <<"1", "2", "3", "4", ".", "5", "6">> =>
                   call.ret = [ok |-> TRUE, int |-> <<"1", "2", "3", "4">>,
                               frac |-> <<"5", "6">>]

(***************************************************************************)
(* Claims about KAPProvider.search (checked under SpecSearch).             *)
(***************************************************************************)
\* How a company matches a query: 3 for the ticker itself, 2 for a ticker
\* that starts with the query, 1 for a name that holds the query, 0 for none.
Rank(i, query) ==
    LET ticker == SearchUpper(Companies[i].ticker)
        q == SearchUpper(query)
    IN  IF ticker = q THEN 3
        ELSE IF Len(q) <= Len(ticker) /\ SubSeq(ticker, 1, Len(q)) = q THEN 2
        ELSE IF IsSubstring(NormalizeText(query), NormalizeText(Companies[i].name)) THEN 1
        ELSE 0

\* The positions of the companies of rank r, in upstream order
RECURSIVE OfRank(_, _, _)
OfRank(r, i, query) ==
    IF i > Len(Companies) THEN <<>>
    ELSE (IF Rank(i, query) = r THEN <<i>> ELSE <<>>) \o OfRank(r, i + 1, query)

\* C32: for a non-empty query, search returns exactly the companies that
\* match, the exact ticker matches first, then the ticker prefix matches,
\* then the name matches, each group in upstream order.
C32_SearchRanking ==
    (call.fn = "search" /\ call.query # <<>>) =>
        call.ret = OfRank(3, 1, call.query) \o OfRank(2, 1, call.query)
                       \o OfRank(1, 1, call.query)

C32_Witness ==
    /\ call.fn = "search"
    /\ call.query = <<"a", "s">>
    /\ call.ret = <<2, 1, 3, 4, 5>>

(***************************************************************************)
(* Claims about get_major_holders (checked under SpecHolders).             *)
(***************************************************************************)
\* C33: once the page has been fetched, get_major_holders raises nothing
\* whatever the script variable holds, and returns the empty frame when no
\* valid record can be made of it.
C33_Original ==
    (/\ call.fn = "get_major_holders"
     /\ call.reqs = 1
     /\ call.page.kind # "HTTPError")
        => /\ call.outcome = "ok"
           /\ (\A i \in 1..Len(call.page.data) : call.page.data[i].shape # "record")
                  => call.rows = <<>>

(***************************************************************************)
(* Claims about EnrichedInfo (checked under SpecInfo).                     *)
(***************************************************************************)
\* The value a lookup of key finds in the groups as they are loaded now.
Memoized(key) ==
    IF key \in DOMAIN heap.basic.data THEN heap.basic.data[key]
    ELSE IF key \in DOMAIN heap.extended.data THEN heap.extended.data[key]
    ELSE heap.dividend.data[key]

\* C34: over any sequence of lookups on one instance each group's upstream
\* load runs at most once; a lookup of a key found in the basic group runs
\* neither the extended nor the dividend load; a lookup through an alias
\* returns what the lookup of its canonical key returns.
C34_Original ==
    /\ heap.loads.basic <= 1
    /\ heap.loads.extended <= 1
    /\ heap.loads.dividend <= 1
    /\ call.fn = "__getitem__" =>
           /\ (call.outcome = "ok" /\ ResolveKey(call.key) \in DOMAIN heap.basic.data)
                  => call.ran.extended = 0 /\ call.ran.dividend = 0
           /\ call.outcome = "ok" => call.ret = Memoized(ResolveKey(call.key))

\* What holds of one instance in every state: the extended and the dividend
\* load have run at most once, a lookup answered from the basic group ran
\* neither, and a lookup returns the memoized value of its resolved key.
InfoShape ==
    /\ heap.loads.extended <= 1
    /\ heap.loads.dividend <= 1
    /\ heap.basic.loaded => heap.loads.basic >= 1
    /\ call.fn = "__getitem__" =>
           /\ (call.outcome = "ok" /\ ResolveKey(call.key) \in DOMAIN heap.basic.data)
                  => call.ran.extended = 0 /\ call.ran.dividend = 0
           /\ call.outcome = "ok" => call.ret = Memoized(ResolveKey(call.key))
           /\ call.outcome = "APIError" <=> (call.ran.basic = 1 /\ ~heap.basic.loaded)

\* A group that is loaded is not loaded again and keeps its data.
InfoMemoized ==
    /\ heap.basic.loaded =>
           heap'.basic = heap.basic /\ heap'.loads.basic = heap.loads.basic
    /\ heap.extended.loaded =>
           heap'.extended = heap.extended /\ heap'.loads.extended = heap.loads.extended
    /\ heap.dividend.loaded =>
           heap'.dividend = heap.dividend /\ heap'.loads.dividend = heap.loads.dividend

\* C34 (as the code has it): a group that has been loaded is never loaded
\* again, so each load succeeds at most once; a basic load that raised is
\* not memoized and runs again at the next lookup.
C34_LoadsMemoized == []InfoShape /\ [][InfoMemoized]_vars

C34_Witness ==
    /\ call.fn = "__getitem__"
    /\ call.key = "regularMarketPrice"
    /\ call.outcome = "ok"
    /\ call.ran.basic = 0
    /\ heap.loads.basic = 2
    /\ heap.loads.extended = 1
    /\ call.ret = heap.basic.data["last"]

(***************************************************************************)
(* Claims about Portfolio (checked under SpecPortfolio).                   *)
(***************************************************************************)
\* The key add stores the holding under.
StoredAs(symbol, asset_type) ==
    IF asset_type # "fx" THEN AsciiUpper(symbol) ELSE symbol

\* C35: add without asset_type stores the type _detect_asset_type gives for
\* the symbol the caller passed: "fx" for a listed currency, metal or
\* commodity, "crypto" for a symbol of more than 5 characters ending in
\* TRY, "stock" for anything else.
C35_Original ==
    (call.fn = "add" /\ call.asset_type = None) =>
        heap.holdings[StoredAs(call.symbol, None)].asset_type
            = DetectAssetType(call.symbol)

\* C40: the asset cache holds entries only for symbols that are held: after
\* remove(symbol) no asset created for that symbol remains.
C40_Original ==
    \A key \in DOMAIN heap.asset_cache :
        heap.asset_cache[key].symbol \in DOMAIN heap.holdings

(***************************************************************************)
(* Claims about the clock readings of a statement request (checked under   *)
(* SpecReadings).                                                          *)
(***************************************************************************)
\* C36: the periods of a statement request are those of one instant: the
\* year and the month it uses belong to the same clock reading, so the
\* periods are those of the date of the first reading or those of the date
\* of the second, never a mix.
C36_Original ==
    walk.pc = "return" =>
        \/ walk.periods = GetPeriods(walk.year_at.year, walk.year_at.month,
                                     walk.quarterly, PeriodCount)
        \/ walk.periods = GetPeriods(walk.month_at.year, walk.month_at.month,
                                     walk.quarterly, PeriodCount)

(***************************************************************************)
(* Claims about get_member_oid under threads (checked under SpecOid).      *)
(***************************************************************************)
\* C37: under any interleaving, a call answered from the in-memory map (map
\* present, timestamp fresh) returns the identifier of every symbol the
\* upstream list contains, never None.
C37_Original ==
    \A t \in Threads :
        (thr[t].pc = "return" /\ thr[t].from_map /\ UpstreamOid(thr[t].symbol) # None)
            => thr[t].ret = UpstreamOid(thr[t].symbol)

(***************************************************************************)
(* Claims about the VIOP page cache (checked under SpecViop).              *)
(***************************************************************************)
\* C38: _fetch_page is cache-aside: a call that misses and whose request
\* succeeds ends well with the page stored in the cache, get_all makes
\* exactly one request on a miss, and APIError is raised only when a
\* request failed.
C38_Original ==
    call.fn # None =>
        /\ call.outcome = "APIError" => call.failed > 0
        /\ (call.outcome = "ok" /\ ~call.hit) =>
               Cache_get(store, ViopCacheKey, now).ret # None
        /\ (call.fn = "get_all" /\ call.outcome = "ok" /\ ~call.hit) => call.reqs = 1

(***************************************************************************)
(* Claims about what a failed call leaves in the cache (checked under      *)
(* SpecFrame).                                                             *)
(***************************************************************************)
Failing == call.fn # None /\ call.outcome # "ok"

\* every entry of the cache after the step was there, the same, before it
NothingStored ==
    \A k \in DOMAIN store' : k \in DOMAIN store /\ store'[k] = store[k]

\* after a call that failed, a lookup of its key finds nothing
NextGoesUpstream == Failing => Cache_get(store, call.key, now).ret = None

\* C39: a provider call that raises, or that falls back to its default
\* result after an APIError, adds and replaces no cache entry, and the next
\* call for the same key goes to the upstream again.
C39_ErrorLeavesCache ==
    []NextGoesUpstream /\ [][Failing' => NothingStored]_vars

C39_Witness ==
    /\ call.fn = "get_dividends"
    /\ call.outcome = "fallback"
    /\ store # EmptyDict

====
